---- MODULE Spec2Model ----
(***************************************************************************)
(* ralphex: the terminal UI bridge (pkg/tui), the top-level driver         *)
(* (cmd/ralphex/main.go) and the phase pipeline they drive.                *)
(*                                                                         *)
(* Specifications:                                                         *)
(*   SenderSpec  SafeSender around a recording sender, driven the way      *)
(*               TestSafeSender drives it (concurrent Send, repeated Stop) *)
(*   AskSpec     teaCollector.AskQuestion calls against the running event  *)
(*               loop and tui.Model, with key presses and cancellation     *)
(*   LoggerSpec  teaLogger on one progress file: NewLogger, concurrent     *)
(*               Print calls of two goroutines, Close                      *)
(*   GitSpec     createBranchIfNeeded and ensureGitignore called on a      *)
(*               repository the way the tests of main_test.go call them    *)
(*   ViewSpec    the output buffer of tui.Model and its viewport under     *)
(*               appended lines and scroll keys                            *)
(*   BroadcastSpec  the broadcast logger of pkg/web under SetPhase,        *)
(*               PrintSection and Print calls                              *)
(*   ModeSpec    determineMode, isWatchOnlyMode and the start of run() on  *)
(*               every combination of options                              *)
(*   BranchNameSpec  extractBranchName on every short plan path            *)
(*   FilenameSpec  progressFilename and sanitizePlanName of pkg/tui and    *)
(*               pkg/progress on plan paths, descriptions and modes        *)
(*   AlignedSpec  PrintAligned calls on one teaLogger                      *)
(*   Spec        one run(): the event loop, the business-logic goroutine   *)
(*               with its loggers, its repository and Runner, and the      *)
(*               return of run()                                           *)
(***************************************************************************)
EXTENDS Integers, Sequences, FiniteSets, TLC

\* ------------------------------------------------------------------ bounds
\* messages each sending goroutine of the SafeSender harness sends
MaxSends == 2
\* Stop calls the harness makes, one after the other
MaxStops == 2

\* ------------------------------------------------------------- vocabulary
\* goroutines that call SafeSender.Send: the business-logic goroutine and one more
\* (the dashboard's late-error goroutine, a second test goroutine)
SendThreads == {"bl", "aux"}


NoMsg == [type |-> "none"]

\* the root context of main() is context 0; a call's own context is its number
RootCtx == 0

VARIABLES
    \* SafeSender (logger.go:25-29)
    stopped,        \* SafeSender.stopped
    muReaders,      \* goroutines holding SafeSender.mu's read lock
    muWaiting,      \* goroutines blocked in SafeSender.mu.Lock()
    sendPc,         \* per goroutine: where it is inside SafeSender.Send
    sendMsg,        \* per goroutine: the message of its Send call
    \* the recording sender of the tests (mockSender.msgs)
    delivered,
    \* harness of TestSafeSender
    hSent,          \* per goroutine: Send calls made
    stopPc,         \* the stopping goroutine: "idle" | "lock"
    stopsCalled,    \* Stop calls begun
    stopsDone,      \* Stop calls returned
    afterStop,      \* messages whose Send was called after a Stop had returned
    beforeStop,     \* messages whose Send returned before any Stop was called
    \* tea.Program running tui.Model (tui.go:33-68)
    model,          \* the tui.Model value the event loop holds
    loopPc,         \* "running" | "blocked" (inside Update, on a channel) | "exited"
    loopMsg,        \* the message of the Update call that is blocked
    loopErr,        \* the error of p.Run(): "nil" | "killed" | "panic"
    cmdMsgs,        \* messages of commands Update returned, not yet received
    sendNoop,       \* the linked tea.Program makes Send a no-op once Run has ended
    chans,          \* the Go channels: id -> [buf, closed]
    ctxDone,        \* per context: cancelled
    \* teaCollector.AskQuestion on the business-logic goroutine
    askPc,          \* "idle" | "publish" | "select" | "done"
    ask,            \* the call: [ch, ctx, opts, qid]
    askResult,      \* what the call returned: [answer, err]
    nAsked,         \* AskQuestion calls made so far (numbers the questions)
    \* run() and the goroutines it starts (main.go)
    opt,            \* the options and the configuration of the run
    mainPc,         \* run(): "run" (in p.Run) | "stop" (in Stop) | "exited" | "none"
    runResult,      \* what run() returned: "none" | "nil" | "TUI" | "execution"
    bl,             \* the business-logic goroutine: its position and its locals
    innerErr,       \* what runBusinessLogicInner returned; "none" before that
    doneSends,      \* sender.Send(ExecutionDoneMsg) calls runBusinessLogic made
    logs,           \* per progress logger: "none" | "open" | "closed" (footer written)
    runner,         \* the processor.Runner that is running
    phasesRun,      \* the phases the last Runner has entered, in order
    auxPc,          \* the dashboard's late-error goroutine
    drainPc,        \* the drain goroutine of waitForPlanSelection
    \* the progress file and its loggers (logger.go, progress.go)
    pfile,          \* the progress file: [content, lock]
    lg,             \* per logger: [st, off, written]
    logPc,          \* per goroutine: the Print call it is in
    \* the git repository and the work tree (main.go:704-823)
    repo,           \* branch, branches, dirty files, plan location, .gitignore, ops
    gitLog,         \* the calls of the git helpers made so far, each with its result
    \* the parts modelled on their own
    view,           \* the output buffer of tui.Model and its viewport
    bcast,          \* the broadcast logger, its inner logger and the session it feeds
    calc            \* a call of a pure helper of main.go: its input and its result

ssVars == <<stopped, muReaders, muWaiting, sendPc, sendMsg>>
harnessVars == <<delivered, hSent, stopPc, stopsCalled, stopsDone, afterStop, beforeStop>>
uiVars == <<model, loopPc, loopMsg, loopErr, cmdMsgs, sendNoop>>
askVars == <<askPc, ask, askResult, nAsked>>
progVars == <<opt, mainPc, runResult, bl, innerErr, doneSends, logs, runner, phasesRun,
              auxPc, drainPc>>
partVars == <<view, bcast, calc>>
envVars == <<pfile, lg, logPc, repo, gitLog, partVars>>
vars == <<ssVars, harnessVars, uiVars, chans, ctxDone, askVars, progVars, envVars>>

Range(s) == {s[i] : i \in 1..Len(s)}
Count(s, x) == Cardinality({i \in 1..Len(s) : s[i] = x})

\* ------------------------------------------------------------- SafeSender
\* sync.RWMutex: RLock blocks while a writer holds the lock or waits for it
RLockFree == muWaiting = {}

\* a Send without the stopped check
SendEnterUnguarded(t, m) ==
    /\ sendPc[t] = "idle"
    /\ RLockFree
    /\ muReaders' = muReaders \cup {t}
    /\ sendPc' = [sendPc EXCEPT ![t] = "inner"]
    /\ sendMsg' = [sendMsg EXCEPT ![t] = m]
    /\ UNCHANGED <<stopped, muWaiting>>

\* SafeSender.Send, up to the call of the wrapped sender: RLock, then the stopped
\* check; a stopped sender returns at once (the deferred RUnlock runs with it)
SendEnter(t, m) ==
    /\ sendPc[t] = "idle"
    /\ RLockFree
    /\ muReaders' = muReaders \cup {t}
    /\ sendPc' = [sendPc EXCEPT ![t] = IF stopped THEN "dropped" ELSE "inner"]
    /\ sendMsg' = [sendMsg EXCEPT ![t] = m]
    /\ UNCHANGED <<stopped, muWaiting>>

\* SafeSender.Send returns: the deferred RUnlock
SendReturn(t) ==
    /\ sendPc[t] \in {"unlock", "dropped"}
    /\ sendPc' = [sendPc EXCEPT ![t] = "idle"]
    /\ muReaders' = muReaders \ {t}
    /\ sendMsg' = [sendMsg EXCEPT ![t] = NoMsg]
    /\ UNCHANGED <<stopped, muWaiting>>

\* SafeSender.Stop reaches mu.Lock(): from here on new readers wait
StopCall(t) ==
    /\ t \notin muWaiting
    /\ muWaiting' = muWaiting \cup {t}
    /\ UNCHANGED <<stopped, muReaders, sendPc, sendMsg>>

\* a Stop that does not wait for the readers to leave
StopMayLockNoWait(t) == t \in muWaiting

\* mu.Lock() is granted once every reader has left
StopMayLock(t) == t \in muWaiting /\ muReaders = {}

\* SafeSender.Stop under the write lock: stopped = true, then the deferred Unlock
StopFlip(t) ==
    /\ StopMayLock(t)
    /\ stopped' = TRUE
    /\ muWaiting' = muWaiting \ {t}
    /\ UNCHANGED <<muReaders, sendPc, sendMsg>>

\* ------------------------------------------------------------ Go channels
\* a buffered channel of capacity 1 (make(chan T, 1)): answerCh, resultCh
ChanCap == 1
NewChan == [buf |-> <<>>, closed |-> FALSE]
NilCh == "nil"

ChanIds == {"ans1", "ans2", "result"}

\* ch <- v proceeds without blocking (a send on a closed channel panics instead)
CanSend(chs, c) == ~chs[c].closed /\ Len(chs[c].buf) < ChanCap
\* <-ch proceeds without blocking: a buffered value, or the channel is closed
CanRecv(chs, c) == Len(chs[c].buf) > 0 \/ chs[c].closed
ChSend(chs, c, v) == [chs EXCEPT ![c].buf = Append(@, v)]
ChDrop(chs, c) == [chs EXCEPT ![c].buf = IF Len(@) > 0 THEN Tail(@) ELSE @]
ChClose(chs, c) == [chs EXCEPT ![c].closed = TRUE]

\* ---------------------------------------------------- tui.Model (tui.go)
States == {"SelectPlan", "CreatePlan", "Executing", "Question", "Done"}
Keys == {"up", "down", "enter", "ctrl+c", "q", "n", "esc", "ctrl+d", "x"}

QuitMsg == [type |-> "Quit"]
KeyMsg(k) == [type |-> "Key", key |-> k]

\* NewModel (tui.go:71-79), with the plan list and the textarea not yet set up
NewModel(initialState) ==
    [state |-> initialState, prevState |-> "SelectPlan", err |-> "nil", phase |-> "",
     question |-> 0, questionOpts |-> <<>>, questionCursor |-> 0,
     questionCh |-> NilCh, planResultCh |-> NilCh,
     planReady |-> FALSE, emptyList |-> FALSE,
     planCreateReady |-> FALSE, planText |-> FALSE]

\* what one Update call leaves: the new model, the channels, the messages of the
\* command it returned, and whether it never returned (blocked on a channel send)
\* or panicked
Res(m, chs, cmd) ==
    [m |-> m, chans |-> chs, cmd |-> cmd, blocked |-> FALSE, panic |-> FALSE]
Blocked(m, chs) ==
    [m |-> m, chans |-> chs, cmd |-> {}, blocked |-> TRUE, panic |-> FALSE]
Panic(m, chs) ==
    [m |-> m, chans |-> chs, cmd |-> {}, blocked |-> FALSE, panic |-> TRUE]

\* Model.handleQuestion (tui.go:197-204)
handleQuestion(m, msg) ==
    [m EXCEPT !.prevState = m.state, !.state = "Question",
              !.question = msg.question, !.questionOpts = msg.options,
              !.questionCursor = 0, !.questionCh = msg.answerCh]

\* Model.deliverPlanResult (tui.go:208-217): a non-blocking send, then Executing
deliverPlanResult(m, chs, result) ==
    LET chs2 == IF m.planResultCh # NilCh /\ CanSend(chs, m.planResultCh)
                  THEN ChSend(chs, m.planResultCh, result)
                  ELSE chs
    IN  Res([m EXCEPT !.planResultCh = NilCh, !.state = "Executing"], chs2, {})

\* Model.deliverPlanError (tui.go:382-387): a plain send
deliverPlanError(m, chs, err) ==
    IF m.planResultCh = NilCh THEN Res(m, chs, {})
    ELSE IF chs[m.planResultCh].closed THEN Panic(m, chs)
    ELSE IF ~CanSend(chs, m.planResultCh) THEN Blocked(m, chs)
    ELSE Res([m EXCEPT !.planResultCh = NilCh],
             ChSend(chs, m.planResultCh, [path |-> "", desc |-> "", err |-> err]), {})

\* an Enter branch that answers with the first option, wherever the cursor is
updateQuestionEnterFirst(m, chs) ==
    IF Len(m.questionOpts) > 0 /\ m.questionCh # NilCh
      THEN IF chs[m.questionCh].closed THEN Panic(m, chs)
           ELSE IF ~CanSend(chs, m.questionCh) THEN Blocked(m, chs)
           ELSE Res([m EXCEPT !.state = m.prevState, !.question = 0,
                              !.questionOpts = <<>>, !.questionCh = NilCh],
                    ChSend(chs, m.questionCh,
                           [text |-> m.questionOpts[1], question |-> m.question]),
                    {})
      ELSE Res(m, chs, {})

\* the Enter branch of Model.updateQuestion (tui.go:400-408)
updateQuestionEnter(m, chs) ==
    IF Len(m.questionOpts) > 0 /\ m.questionCh # NilCh
      THEN IF chs[m.questionCh].closed THEN Panic(m, chs)
           ELSE IF ~CanSend(chs, m.questionCh) THEN Blocked(m, chs)
           ELSE Res([m EXCEPT !.state = m.prevState, !.question = 0,
                              !.questionOpts = <<>>, !.questionCh = NilCh],
                    ChSend(chs, m.questionCh,
                           [text |-> m.questionOpts[m.questionCursor + 1],
                            question |-> m.question]),
                    {})
      ELSE Res(m, chs, {})

\* the Ctrl-C branch of updateQuestion that quits without closing the channel
updateQuestionCtrlCNoClose(m, chs) ==
    Res([m EXCEPT !.questionCh = NilCh], chs, {QuitMsg})

\* the Ctrl-C branch of Model.updateQuestion (tui.go:409-415)
updateQuestionCtrlC(m, chs) ==
    IF m.questionCh # NilCh
      THEN IF chs[m.questionCh].closed THEN Panic(m, chs)
           ELSE Res([m EXCEPT !.questionCh = NilCh], ChClose(chs, m.questionCh),
                    {QuitMsg})
      ELSE Res(m, chs, {QuitMsg})

\* Model.updateQuestion (tui.go:390-418)
updateQuestion(m, chs, k) ==
    CASE k = "up" ->
           Res(IF m.questionCursor > 0
                 THEN [m EXCEPT !.questionCursor = @ - 1] ELSE m, chs, {})
      [] k = "down" ->
           Res(IF m.questionCursor < Len(m.questionOpts) - 1
                 THEN [m EXCEPT !.questionCursor = @ + 1] ELSE m, chs, {})
      [] k = "enter" -> updateQuestionEnter(m, chs)
      [] k = "ctrl+c" -> updateQuestionCtrlC(m, chs)
      [] OTHER -> Res(m, chs, {})

\* a viewport key handler that quits on every key
updateViewportKeyAnyQuits(m, chs, k) == Res(m, chs, {QuitMsg})

\* Model.updateViewportKey (tui.go:241-269); the scroll position is not part of
\* this model value
updateViewportKey(m, chs, k) ==
    IF k \in {"q", "ctrl+c"} THEN Res(m, chs, {QuitMsg}) ELSE Res(m, chs, {})

\* the result of a handler that goes on to return cmd, unless it never returned
WithCmd(res, cmd) ==
    IF res.blocked \/ res.panic THEN res ELSE [res EXCEPT !.cmd = cmd]

\* Model.initPlanCreate (tui.go:272-284): a fresh, empty textarea
initPlanCreate(m, chs) ==
    Res([m EXCEPT !.planCreateReady = TRUE, !.planText = FALSE], chs, {})

\* planCreateModel.updatePlanCreate (part_004:731-755) under
\* Model.updatePlanCreateKey (tui.go:287-291); every other key goes to the textarea,
\* where a printing key or Enter leaves it non-empty
updatePlanCreateKey(m, chs, k) ==
    CASE k \in {"ctrl+d", "esc"} ->
           IF m.planText THEN Res(m, chs, {[type |-> "planCreateSubmit", desc |-> "desc"]})
           ELSE IF k = "esc" THEN Res(m, chs, {[type |-> "planCreateCancel"]})
           ELSE Res(m, chs, {})
      [] k = "ctrl+c" -> Res(m, chs, {[type |-> "planCreateCancel"]})
      [] k \in {"x", "q", "n", "enter"} -> Res([m EXCEPT !.planText = TRUE], chs, {})
      [] OTHER -> Res(m, chs, {})

\* Model.updateInitPlanList (tui.go:315-337)
updateInitPlanList(m, chs, msg) ==
    CASE msg.list = "err" ->
           WithCmd(deliverPlanError([m EXCEPT !.err = "load plans"], chs, "load plans"),
                   {QuitMsg})
      [] msg.list = "empty" ->
           Res([m EXCEPT !.emptyList = TRUE, !.planReady = TRUE], chs, {})
      [] OTHER -> Res([m EXCEPT !.planReady = TRUE], chs, {})

\* Model.updatePlanList (tui.go:340-379), the list not in its filter input; the
\* keys left to the bubbles list do not quit (plan_list.go:107 switches its quit
\* bindings off) and are not followed further
updatePlanList(m, chs, k) ==
    IF m.emptyList
      THEN CASE k = "n" -> initPlanCreate([m EXCEPT !.state = "CreatePlan"], chs)
             [] k \in {"q", "ctrl+c"} ->
                  WithCmd(deliverPlanError(m, chs, "ErrNoPlansFound"), {QuitMsg})
             [] OTHER -> Res(m, chs, {})
      ELSE CASE k = "enter" -> Res(m, chs, {[type |-> "PlanSelected", path |-> "plan.md"]})
             [] k = "ctrl+c" ->
                  WithCmd(deliverPlanError(m, chs, "ErrUserCanceled"), {QuitMsg})
             [] k = "n" -> initPlanCreate([m EXCEPT !.state = "CreatePlan"], chs)
             [] OTHER -> Res(m, chs, {})

\* Model.updateKey (tui.go:220-238)
updateKey(m, chs, k) ==
    IF m.state = "Question" THEN updateQuestion(m, chs, k)
    ELSE IF m.state = "CreatePlan" /\ m.planCreateReady THEN updatePlanCreateKey(m, chs, k)
    ELSE IF m.state = "SelectPlan" /\ m.planReady THEN updatePlanList(m, chs, k)
    ELSE IF m.state \in {"Executing", "Done"} THEN updateViewportKey(m, chs, k)
    ELSE IF k \in {"q", "ctrl+c"} THEN Res(m, chs, {QuitMsg})
    ELSE Res(m, chs, {})

\* Model.updateMsg (tui.go:134-161)
updateMsg(m, chs, msg) ==
    CASE msg.type = "PhaseChange" -> Res([m EXCEPT !.phase = msg.phase], chs, {})
      [] msg.type = "Question" -> Res(handleQuestion(m, msg), chs, {})
      [] msg.type = "ExecutionDone" ->
           Res([m EXCEPT !.state = "Done", !.err = msg.err], chs, {})
      [] msg.type = "Error" -> Res([m EXCEPT !.err = msg.err], chs, {})
      [] msg.type = "PlanSelectionRequest" ->
           Res([m EXCEPT !.planResultCh = msg.resultCh], chs, {})
      [] msg.type = "PlanSelected" ->
           deliverPlanResult(m, chs, [path |-> msg.path, desc |-> "", err |-> "nil"])
      [] msg.type = "PlanCreated" ->
           deliverPlanResult(m, chs, [path |-> "", desc |-> msg.desc, err |-> "nil"])
      [] OTHER -> Res(m, chs, {})

\* Model.Update (tui.go:111-131)
Update(m, chs, msg) ==
    CASE msg.type = "Key" -> updateKey(m, chs, msg.key)
      [] msg.type = "initPlanList" -> updateInitPlanList(m, chs, msg)
      [] msg.type = "initPlanCreate" -> initPlanCreate(m, chs)
      [] msg.type = "planCreateSubmit" ->
           Res(m, chs, {[type |-> "PlanCreated", desc |-> msg.desc]})
      [] msg.type = "planCreateCancel" -> Res(m, chs, {QuitMsg})
      [] OTHER -> updateMsg(m, chs, msg)

\* Model.Init (tui.go:100-108): the command the program starts with
ModelInit(m, list) ==
    IF m.state = "SelectPlan" THEN {[type |-> "initPlanList", list |-> list]}
    ELSE IF m.state = "CreatePlan" THEN {[type |-> "initPlanCreate"]}
    ELSE {}

\* ------------------------------------------------ tea.Program (event loop)
\* command messages that may be outstanding when the loop takes a key press
MaxPending == 1

\* the event loop has called Update on msg: the call returns and the loop takes the
\* model and the command, or it blocks on a channel send, or it panics and the loop
\* ends with the panic as its error
LoopApply(res, msg) ==
    IF res.blocked
      THEN /\ loopPc' = "blocked"
           /\ loopMsg' = msg
           /\ UNCHANGED <<model, chans, loopErr>>
    ELSE IF res.panic
      THEN /\ loopPc' = "exited"
           /\ loopErr' = "panic"
           /\ loopMsg' = NoMsg
           /\ UNCHANGED <<model, chans>>
    ELSE /\ model' = res.m
         /\ chans' = res.chans
         /\ loopPc' = "running"
         /\ loopMsg' = NoMsg
         /\ UNCHANGED loopErr

\* Program.Send: the unbuffered hand-over of a message to the running event loop,
\* which then runs Update on it
ProgramSend(t) ==
    /\ sendPc[t] = "inner"
    /\ loopPc = "running"
    /\ LoopApply(Update(model, chans, sendMsg[t]), sendMsg[t])
    /\ cmdMsgs' = cmdMsgs \cup Update(model, chans, sendMsg[t]).cmd
    /\ sendPc' = [sendPc EXCEPT ![t] = "unlock"]
    /\ UNCHANGED <<stopped, muReaders, muWaiting, sendMsg, sendNoop>>

\* Program.Send once Run has ended, when the linked tea.Program gives Send up then
ProgramSendNoop(t) ==
    /\ sendPc[t] = "inner"
    /\ loopPc = "exited"
    /\ sendNoop
    /\ sendPc' = [sendPc EXCEPT ![t] = "unlock"]
    /\ UNCHANGED <<stopped, muReaders, muWaiting, sendMsg>>
    /\ UNCHANGED <<uiVars, chans>>

\* a key press reaches Update
LoopKey(k) ==
    /\ loopPc = "running"
    /\ Cardinality(cmdMsgs) <= MaxPending
    /\ LoopApply(Update(model, chans, KeyMsg(k)), KeyMsg(k))
    /\ cmdMsgs' = cmdMsgs \cup Update(model, chans, KeyMsg(k)).cmd
    /\ UNCHANGED sendNoop

\* the message of a command reaches the loop: QuitMsg ends it, any other is updated
LoopCmd(msg) ==
    /\ loopPc = "running"
    /\ msg \in cmdMsgs
    /\ IF msg = QuitMsg
         THEN /\ loopPc' = "exited"
              /\ UNCHANGED <<model, chans, cmdMsgs, loopErr, loopMsg>>
         ELSE /\ LoopApply(Update(model, chans, msg), msg)
              /\ cmdMsgs' = (cmdMsgs \ {msg}) \cup Update(model, chans, msg).cmd
    /\ UNCHANGED sendNoop

\* the channel send Update was blocked on can proceed: the call goes on and returns
LoopResume ==
    /\ loopPc = "blocked"
    /\ ~Update(model, chans, loopMsg).blocked
    /\ LoopApply(Update(model, chans, loopMsg), loopMsg)
    /\ cmdMsgs' = cmdMsgs \cup Update(model, chans, loopMsg).cmd
    /\ UNCHANGED sendNoop

\* tea.WithContext(ctx): the loop ends, and Run returns an error, once ctx is done
LoopKilled ==
    /\ loopPc = "running"
    /\ ctxDone[RootCtx]
    /\ loopPc' = "exited"
    /\ loopErr' = "killed"
    /\ UNCHANGED <<model, chans, cmdMsgs, sendNoop, loopMsg>>

\* ----------------------------------- teaCollector (input_collector.go)
QuestionMsg(a) ==
    [type |-> "Question", question |-> a.qid, options |-> a.opts, answerCh |-> a.ch]

NoAsk == [ch |-> NilCh, ctx |-> RootCtx, opts |-> <<>>, qid |-> 0]
NoResult == [answer |-> "", question |-> 0, err |-> "nil"]

\* the stale-answer drain of AskQuestion (input_collector.go:32-36); a receive from
\* a closed channel succeeds as well and leaves it as it is
Drain(chs, c) == ChDrop(chs, c)
\* AskQuestion up to the publish (input_collector.go:27-36): the options check,
\* then the non-blocking drain of the answer channel
AskCall(c, ctx, opts) ==
    /\ askPc = "idle"
    /\ nAsked' = nAsked + 1
    /\ ask' = [ch |-> c, ctx |-> ctx, opts |-> opts, qid |-> nAsked + 1]
    /\ IF Len(opts) = 0
         THEN /\ askPc' = "done"
              /\ askResult' = [NoResult EXCEPT !.err = "no options provided"]
              /\ UNCHANGED chans
         ELSE /\ askPc' = "publish"
              /\ askResult' = NoResult
              /\ chans' = Drain(chans, c)

\* c.sender.Send(QuestionMsg{...}) is entered (input_collector.go:38-42)
AskPublish ==
    /\ askPc = "publish"
    /\ SendEnter("bl", QuestionMsg(ask))
    /\ askPc' = "sending"
    /\ UNCHANGED <<ask, askResult, nAsked>>

\* the Send has returned: on to the select
AskPublished ==
    /\ askPc = "sending"
    /\ SendReturn("bl")
    /\ askPc' = "select"
    /\ UNCHANGED <<ask, askResult, nAsked>>

\* a select without the ctx.Done() case
SelectCtxNever == FALSE
\* the ctx.Done() case of the select is ready
SelectCtxReady == ctxDone[ask.ctx]

\* select, case <-ctx.Done() (input_collector.go:45-46)
AskSelectCtx ==
    /\ askPc = "select"
    /\ SelectCtxReady
    /\ askPc' = "done"
    /\ askResult' = [NoResult EXCEPT !.err = "ctx"]
    /\ UNCHANGED <<ask, nAsked, chans>>

\* what a receive from the answer channel gives: the buffered answer, or "question
\* canceled" from a closed and empty channel
Received(chs, c) ==
    IF Len(chs[c].buf) > 0
      THEN [answer |-> Head(chs[c].buf).text, question |-> Head(chs[c].buf).question,
            err |-> "nil"]
      ELSE [NoResult EXCEPT !.err = "question canceled"]
\* select, case answer, ok := <-c.answerCh (input_collector.go:47-51)
AskSelectRecv ==
    /\ askPc = "select"
    /\ CanRecv(chans, ask.ch)
    /\ askPc' = "done"
    /\ askResult' = Received(chans, ask.ch)
    /\ chans' = ChDrop(chans, ask.ch)
    /\ UNCHANGED <<ask, nAsked>>

\* ------------------------------- the progress file and teaLogger (logger.go)
\* Print calls each goroutine makes on the logger
MaxPrints == 2

\* the loggers opened on the one progress path
LoggerIds == {"first", "second"}

\* a line of the progress file
Line(kind, from, seq) == [kind |-> kind, from |-> from, seq |-> seq]
HeaderLine == Line("header", "", 0)
FooterLine == Line("footer", "", 0)
\* bytes nobody wrote: a write beyond the end of a file leaves a hole before it
HoleLine == Line("hole", "", 0)

\* the calls that write a line and send a message
PrintKinds == {"Print", "PrintRaw", "PrintSection"}

\* the message a Print call sends for the line it wrote: OutputMsg for Print and
\* PrintRaw (logger.go:137-150), SectionMsg for PrintSection (logger.go:153-157)
MsgOf(line) ==
    [type |-> IF line.kind = "PrintSection" THEN "Section" ELSE "Output",
     from |-> line.from, seq |-> line.seq]

NoFile == [content |-> <<>>, lock |-> "none"]
NoLogger == [st |-> "none", off |-> 0, written |-> <<>>]
NoPrint == [pc |-> "idle", n |-> 0, line |-> HoleLine]

\* os.Create (logger.go:88, progress.go:81): the file exists and is empty afterwards
Create(f) == [f EXCEPT !.content = <<>>]

\* a write of one line at offset off of the file: *os.File writes at the offset of
\* its own descriptor
WriteAt(content, off, line) ==
    IF off < Len(content)
      THEN [content EXCEPT ![off + 1] = line]
      ELSE content \o [i \in 1..(off - Len(content)) |-> HoleLine] \o <<line>>

\* teaLogger.writeFile (logger.go:246-250) on an open logger
writeFile(f, g, line) ==
    [file |-> [f EXCEPT !.content = WriteAt(@, g.off, line)],
     logger |-> [g EXCEPT !.off = @ + 1, !.written = Append(@, line)]]

\* progress.LockFile: the exclusive advisory lock is free
LockFree(f) == f.lock = "none"

\* what a step of the logger harness leaves alone
LoggerFrame ==
    UNCHANGED <<ssVars, stopPc, stopsCalled, stopsDone, afterStop, beforeStop, hSent,
                uiVars, chans, ctxDone, askVars, progVars, repo, gitLog, partVars>>

\* tui.NewLogger (logger.go:78-120): create the file, lock it, write the header
NewLogger(l) ==
    /\ lg[l].st = "none"
    /\ LET created == Create(pfile)
       IN IF LockFree(created)
            THEN LET w == writeFile([created EXCEPT !.lock = l],
                                    [NoLogger EXCEPT !.st = "open"], HeaderLine)
                 IN pfile' = w.file /\ lg' = [lg EXCEPT ![l] = w.logger]
            ELSE /\ pfile' = created
                 /\ lg' = [lg EXCEPT ![l].st = "failed"]
    /\ UNCHANGED <<logPc, delivered>>
    /\ LoggerFrame

\* Print, PrintRaw, PrintSection (logger.go:137-157), first half: the line goes to
\* the file
PrintWrite(t, l) ==
    /\ logPc[t].pc = "idle"
    /\ logPc[t].n < MaxPrints
    /\ lg[l].st = "open"
    /\ \E kind \in PrintKinds :
         LET line == Line(kind, t, logPc[t].n + 1)
             w == writeFile(pfile, lg[l], line)
         IN /\ pfile' = w.file
            /\ lg' = [lg EXCEPT ![l] = w.logger]
            /\ logPc' = [logPc EXCEPT ![t] = [pc |-> "send", n |-> @.n + 1, line |-> line]]
    /\ UNCHANGED delivered
    /\ LoggerFrame

\* second half: l.sender.Send of the message; the sender of the logger tests
\* records it (mockSender.Send, part_004:23-27)
PrintSend(t) ==
    /\ logPc[t].pc = "send"
    /\ delivered' = Append(delivered, MsgOf(logPc[t].line))
    /\ logPc' = [logPc EXCEPT ![t].pc = "idle"]
    /\ UNCHANGED <<pfile, lg>>
    /\ LoggerFrame

\* teaLogger.Close (logger.go:228-244): footer, unlock, close
LoggerClose(l) ==
    /\ lg[l].st = "open"
    /\ \A t \in SendThreads : logPc[t].pc = "idle"
    /\ LET w == writeFile(pfile, lg[l], FooterLine)
       IN /\ pfile' = [w.file EXCEPT !.lock = IF @ = l THEN "none" ELSE @]
          /\ lg' = [lg EXCEPT ![l] = [w.logger EXCEPT !.st = "closed"]]
    /\ UNCHANGED <<logPc, delivered>>
    /\ LoggerFrame

\* no progress file, no logger, no repository: the state of the specifications
\* without them
LoggerIdle ==
    /\ pfile = NoFile
    /\ lg = [l \in LoggerIds |-> NoLogger]
    /\ logPc = [t \in SendThreads |-> NoPrint]

\* ------------------------------------- source control (main.go:602-823)
\* the calls on git.Repo and on the file system that can fail
GitCalls == {"CurrentBranch", "HasChangesOtherThan", "FileHasChanges", "CheckoutBranch",
             "CreateBranch", "Add", "Commit", "IsIgnored", "OpenFile", "WriteString", "MkdirAll",
             "MoveFile", "Rename", "HasCommits", "CreateInitialCommit"}

\* the base name of a plan file without ".md", split the way datePrefixRe
\* (main.go:57) sees it: the longest prefix of digits and dashes, and the rest
PlanParts(planFile) ==
    CASE planFile = "2024-01-15-add-cache.md" -> [prefix |-> "2024-01-15-", rest |-> "add-cache"]
      [] planFile = "2024.md" -> [prefix |-> "2024", rest |-> ""]
      [] planFile = "main.md" -> [prefix |-> "", rest |-> "main"]
      [] OTHER -> [prefix |-> "", rest |-> "plan"]

\* extractBranchName (main.go:695-702)
extractBranchName(planFile) ==
    LET p == PlanParts(planFile)
    IN IF p.rest = "" THEN p.prefix ELSE p.rest

\* a repository with its work tree; ignoreDirty: .gitignore has a change that is
\* not committed, which it has not at the start
Repo(branch, branches, planDirty, otherDirty, hasCommits, ignored) ==
    [branch |-> branch, branches |-> branches \cup {branch}, planDirty |-> planDirty,
     otherDirty |-> otherDirty, hasCommits |-> hasCommits, ignored |-> ignored,
     patterns |-> IF ignored THEN 1 ELSE 0, ignoreDirty |-> FALSE, planAt |-> "plans",
     ops |-> <<>>]

\* gitOps.HasChangesOtherThan(planFile): a file other than the plan has uncommitted
\* changes, .gitignore being such a file
HasChangesOtherThan(r) == r.otherDirty \/ r.ignoreDirty
NoRepo == Repo("main", {}, FALSE, FALSE, TRUE, TRUE)

\* what a helper leaves: the repository, the error it returns, whether it sent
\* output to the UI
GitRes(r, err, sent) == [repo |-> r, err |-> err, sent |-> sent]

\* the source-control changes of a repository so far, with one more
Did(r, op) == [r EXCEPT !.ops = Append(@, op)]

\* the refusal of createBranchIfNeeded (main.go:722-731)
CannotCreateBranch == "cannot create branch: worktree has uncommitted changes"

\* gitOps.BranchExists (main.go:739): which call puts the work tree on the branch
SwitchCall(r, branchName) ==
    IF branchName \in r.branches THEN "CheckoutBranch" ELSE "CreateBranch"
\* CheckoutBranch of an existing branch (main.go:741), CreateBranch of a new one
\* (main.go:746)
OnBranch(r, branchName) ==
    IF branchName \in r.branches
      THEN Did([r EXCEPT !.branch = branchName], "checkout")
      ELSE Did([r EXCEPT !.branch = branchName, !.branches = @ \cup {branchName}],
               "create branch")

\* a second half of createBranchIfNeeded that commits the plan whether it has
\* changes or not
switchBranchAlwaysCommit(r, planFile, F) ==
    LET branchName == extractBranchName(planFile)
    IN IF SwitchCall(r, branchName) \in F THEN GitRes(r, "create branch", TRUE)
       ELSE GitRes(Did(Did([OnBranch(r, branchName) EXCEPT !.planDirty = FALSE],
                           "stage plan"), "commit plan"), "nil", TRUE)

\* createBranchIfNeeded from the plan file status on (main.go:733-763): the branch is
\* created or checked out, and the plan committed if it had changes; F is the set
\* of calls that fail
switchBranchAndCommitPlan(r, planFile, F) ==
    LET branchName == extractBranchName(planFile)
        onBranch == OnBranch(r, branchName)
        switchCall == SwitchCall(r, branchName)
    IN IF "FileHasChanges" \in F THEN GitRes(r, "check plan file status", FALSE)
       ELSE IF switchCall \in F
         THEN GitRes(r, IF switchCall = "CheckoutBranch" THEN "checkout branch"
                                                         ELSE "create branch", TRUE)
       ELSE IF ~r.planDirty THEN GitRes(onBranch, "nil", TRUE)
       ELSE IF "Add" \in F THEN GitRes(onBranch, "stage plan file", TRUE)
       ELSE IF "Commit" \in F THEN GitRes(Did(onBranch, "stage plan"), "commit plan file", TRUE)
       ELSE GitRes(Did(Did([onBranch EXCEPT !.planDirty = FALSE], "stage plan"),
                       "commit plan"), "nil", TRUE)

\* a createBranchIfNeeded that does not look at the other files of the work tree
createBranchAnyWorktree(r, planFile, F) ==
    IF "CurrentBranch" \in F THEN GitRes(r, "get current branch", FALSE)
    ELSE IF r.branch \notin {"main", "master"} THEN GitRes(r, "nil", FALSE)
    ELSE switchBranchAndCommitPlan(r, planFile, F)

\* createBranchIfNeeded (main.go:704-764)
createBranchIfNeeded(r, planFile, F) ==
    IF "CurrentBranch" \in F THEN GitRes(r, "get current branch", FALSE)
    ELSE IF r.branch \notin {"main", "master"} THEN GitRes(r, "nil", FALSE)
    ELSE IF "HasChangesOtherThan" \in F THEN GitRes(r, "check uncommitted files", FALSE)
    ELSE IF HasChangesOtherThan(r) THEN GitRes(r, CannotCreateBranch, FALSE)
    ELSE switchBranchAndCommitPlan(r, planFile, F)

\* an ensureGitignore that appends the pattern without asking IsIgnored
ensureGitignoreUnasked(r, F) ==
    IF "OpenFile" \in F THEN GitRes(r, "open .gitignore", FALSE)
    ELSE GitRes(Did([r EXCEPT !.patterns = @ + 1, !.ignored = TRUE,
                               !.ignoreDirty = TRUE], "gitignore"),
                "nil", TRUE)

\* ensureGitignore (main.go:798-823): the pattern is appended unless IsIgnored
\* answers, without an error, that progress files are ignored; the append is a
\* change of .gitignore that nothing commits
ensureGitignore(r, F) ==
    IF "IsIgnored" \notin F /\ r.ignored THEN GitRes(r, "nil", FALSE)
    ELSE IF "OpenFile" \in F THEN GitRes(r, "open .gitignore", FALSE)
    ELSE IF "WriteString" \in F THEN GitRes(r, "write .gitignore", FALSE)
    ELSE GitRes(Did([r EXCEPT !.patterns = @ + 1, !.ignored = TRUE,
                               !.ignoreDirty = TRUE], "gitignore"),
                "nil", TRUE)

\* setupGitForExecution (main.go:612-622)
setupGitForExecution(r, planFile, mode, F) ==
    IF planFile = "" THEN GitRes(r, "nil", FALSE)
    ELSE LET b == IF mode = "full" THEN createBranchIfNeeded(r, planFile, F)
                                   ELSE GitRes(r, "nil", FALSE)
         IN IF b.err # "nil" THEN b
            ELSE LET g == ensureGitignore(b.repo, F)
                 IN GitRes(g.repo, g.err, b.sent \/ g.sent)

\* movePlanToCompleted (main.go:766-796): git mv, or a plain rename and git add,
\* then the commit
movePlanToCompleted(r, F) ==
    LET moved == Did([r EXCEPT !.planAt = "completed"], "move plan")
    IN IF "MkdirAll" \in F THEN GitRes(r, "create completed dir", FALSE)
       ELSE IF "MoveFile" \in F /\ "Rename" \in F THEN GitRes(r, "move plan", FALSE)
       ELSE IF "Commit" \in F THEN GitRes(moved, "commit plan move", "MoveFile" \in F /\ "Add" \in F)
       ELSE GitRes(Did(moved, "commit move"), "nil", TRUE)

\* a handlePostExecution that archives the plan of a run in any mode
handlePostExecutionAnyMode(r, planFile, mode, F) ==
    IF planFile # ""
      THEN LET m == movePlanToCompleted(r, F) IN GitRes(m.repo, "nil", TRUE)
      ELSE GitRes(r, "nil", FALSE)

\* handlePostExecution (main.go:602-609): the plan of a Full run is archived; a
\* failure is reported to the UI and is not an error of the run
handlePostExecution(r, planFile, mode, F) ==
    IF planFile # "" /\ mode = "full"
      THEN LET m == movePlanToCompleted(r, F) IN GitRes(m.repo, "nil", TRUE)
      ELSE GitRes(r, "nil", FALSE)

\* gitOps.CreateInitialCommit (main.go:391)
CreateInitialCommit(r) == Did([r EXCEPT !.hasCommits = TRUE], "initial commit")

\* the calls that fail in one execution of a helper: none, one, or git mv together
\* with what the fallback of movePlanToCompleted calls
FailSets ==
    {{}} \cup {{c} : c \in GitCalls}
         \cup {{"MoveFile", c} : c \in {"Rename", "Add", "Commit"}}
         \cup {{"MoveFile", "Add", "Commit"}}

\* the failures a whole run is tried with: every one of them but a failing
\* IsIgnored, which the helper specification tries
RunFailSets == {F \in FailSets : "IsIgnored" \notin F}

\* the plan file a run is given or finds
PlanName == "plan.md"

\* the repositories a run starts in. Every run is tried on a feature branch with
\* nothing to do (in a repository without commits: on main, nothing committed yet);
\* the plain Full run on a plan file and the plan-creation run are tried as well on
\* main with the plan as the only uncommitted file and progress files not ignored
\* and on main with other uncommitted files, the plan-creation run on a clean main
\* with progress files ignored, the Full run also on master with the branch of the
\* plan already there
RunRepos(o) ==
    { IF o.hasCommits THEN Repo("feature", {"main"}, FALSE, FALSE, TRUE, TRUE)
                      ELSE Repo("main", {}, TRUE, FALSE, FALSE, FALSE) }
    \cup (IF \/ o.PlanDescription
              \/ /\ o.PlanFile = PlanName /\ o.hasCommits /\ ~o.Serve
                 /\ ~o.CodexEnabled /\ ~o.Review /\ ~o.CodexOnly
            THEN { Repo("main", {}, ~o.PlanDescription, FALSE, TRUE, FALSE),
                   Repo("main", {}, ~o.PlanDescription, TRUE, TRUE, TRUE) }
            ELSE {})
    \cup (IF o.PlanDescription THEN { Repo("main", {}, FALSE, FALSE, TRUE, TRUE) } ELSE {})
    \cup (IF o.PlanFile = PlanName /\ o.hasCommits /\ ~o.Serve
             /\ ~o.CodexEnabled /\ ~o.Review /\ ~o.CodexOnly
            THEN { Repo("master", {extractBranchName(PlanName)}, FALSE, FALSE, TRUE, TRUE) }
            ELSE {})

GitIdle ==
    /\ repo = NoRepo
    /\ gitLog = <<>>

\* --------------------------------------------------- run() (main.go:113-209)
\* o.MaxIterations: iterations one phase may take
MaxIterations == 2
\* cfg.TaskRetryCount: retries the Task phase grants a task that keeps failing
TaskRetryCount == 1
\* questions the Plan phase asks in one run
MaxPlanQuestions == 1

\* the options a run is started with; validateFlags (main.go:665-670) has passed and
\* isWatchOnlyMode (main.go:646-648) is false
Opt(desc, codexOnly, review, planFile, serve, hasCommits, codexEnabled) ==
    [PlanDescription |-> desc, CodexOnly |-> codexOnly, Review |-> review,
     PlanFile |-> planFile, Serve |-> serve, hasCommits |-> hasCommits,
     CodexEnabled |-> codexEnabled]
Configs ==
    { Opt(FALSE, co, rv, "plan.md", FALSE, TRUE, ce) :
        co \in BOOLEAN, rv \in BOOLEAN, ce \in BOOLEAN }
    \cup { Opt(FALSE, FALSE, FALSE, "", FALSE, TRUE, TRUE),
           Opt(FALSE, FALSE, TRUE, "", FALSE, TRUE, FALSE),
           Opt(FALSE, TRUE, FALSE, "", FALSE, TRUE, FALSE),
           Opt(TRUE, FALSE, FALSE, "", FALSE, TRUE, TRUE),
           Opt(FALSE, FALSE, FALSE, "plan.md", TRUE, TRUE, TRUE),
           Opt(FALSE, FALSE, FALSE, "plan.md", FALSE, FALSE, FALSE),
           Opt(FALSE, FALSE, FALSE, "missing.md", FALSE, TRUE, TRUE) }
\* what loadPlanItems finds in the plans directory
PlanDirs == {"items", "empty", "err"}

\* a determineMode that looks at --review before --codex-only
determineModeReviewFirst(o) ==
    IF o.PlanDescription THEN "plan"
    ELSE IF o.Review THEN "review"
    ELSE IF o.CodexOnly THEN "codex-only"
    ELSE "full"

\* determineMode (main.go:651-662)
determineMode(o) ==
    IF o.PlanDescription THEN "plan"
    ELSE IF o.CodexOnly THEN "codex-only"
    ELSE IF o.Review THEN "review"
    ELSE "full"

\* determineInitialTUIState (main.go:222-237)
determineInitialTUIState(o, mode) ==
    IF mode = "plan" THEN "Executing"
    ELSE IF o.PlanFile # "" THEN "Executing"
    ELSE IF o.Review \/ o.CodexOnly THEN "Executing"
    ELSE "SelectPlan"

\* a createRunner that passes cfg.CodexEnabled on as it is
codexEnabledAsConfigured(cfgCodexEnabled, mode) == cfgCodexEnabled

\* createRunner (main.go:673-691): the CodexEnabled the Runner is configured with
codexEnabled(cfgCodexEnabled, mode) ==
    IF mode = "codex-only" THEN TRUE ELSE cfgCodexEnabled

\* the Runner's pipeline for its mode
Pipeline(mode, codex) ==
    CASE mode = "full" ->
           <<"task", "review">> \o (IF codex THEN <<"codex">> ELSE <<>>) \o <<"review">>
      [] mode = "review" -> <<"review">>
      [] mode = "codex-only" -> (IF codex THEN <<"codex">> ELSE <<>>) \o <<"review">>
      [] OTHER -> <<"plan">>

NoRunner == [mode |-> "", queue |-> <<>>, iter |-> 0, retries |-> 0, asked |-> 0,
             from |-> ""]

\* processor.New as createRunner (main.go:673-691) and runPlanModeTUI
\* (main.go:519-529) call it
NewRunner(mode, cfgCodexEnabled, from) ==
    [NoRunner EXCEPT !.mode = mode, !.from = from,
                     !.queue = Pipeline(mode, codexEnabled(cfgCodexEnabled, mode))]

\* the inner error passed on as it is, the sentinel included
DoneErrUnfiltered(err) == err

\* errors.Is(err, errPlanModeCompleted) and the Err of the ExecutionDoneMsg
\* (main.go:247-250)
DoneErr(err) == IF err = "errPlanModeCompleted" THEN "nil" ELSE err

\* the business-logic goroutine before it runs
NewBL == [pc |-> "ec_check", err |-> "nil", planFile |-> "", mode |-> "",
          execFrom |-> "", pmFrom |-> "", tuiLogClosed |-> FALSE, desc |-> FALSE]

\* the process is alive: run() has not returned
Alive == mainPc \in {"run", "stop"}

\* the sender.Send calls of the business-logic goroutine, each with the position
\* that follows its return; consecutive Print calls of one function are one entry
BLNext ==
    [ec_out |-> "ec_ask", ec_created |-> "dispatch", wps_send |-> "wps_select",
     setup_out |-> "ex_newlog", ex_startup |-> "ex_web", ex_web_out |-> "ex_print",
     ex_print |-> "ex_run", r_phase |-> "r_section", r_section |-> "r_exec",
     r_question |-> "r_ask", r_answer |-> "r_exec",
     ex_post |-> "ex_completed", ex_completed |-> "ex_after",
     ex_serve_out |-> "ex_serve_close",
     pm_gitignore |-> "pm_newlog", pm_startup |-> "pm_print", pm_print |-> "pm_run",
     pm_found |-> "pm_cont", pm_warn |-> "pm_defer", pm_continuing |-> "pm_branch",
     pm_branch_out |-> "pm_exec", setup_err_out |-> "inner_ret",
     pm_branch_err_out |-> "pm_defer", done_send |-> "finished"]
BLSites == DOMAIN BLNext

\* the message of the Send at a position
BLMsg(b) ==
    CASE b.pc = "wps_send" -> [type |-> "PlanSelectionRequest", resultCh |-> "result"]
      [] b.pc = "r_phase" -> [type |-> "PhaseChange", phase |-> Head(runner.queue)]
      [] b.pc = "r_section" -> [type |-> "Section", iter |-> runner.iter]
      [] b.pc \in {"ex_startup", "pm_startup"} -> [type |-> "StartupInfo"]
      [] b.pc = "done_send" -> [type |-> "ExecutionDone", err |-> DoneErr(innerErr)]
      [] OTHER -> [type |-> "Output", at |-> b.pc]

\* what a step of the business-logic goroutine that touches only its own position
\* and locals leaves alone
BLOnly ==
    UNCHANGED <<envVars, ssVars, harnessVars, uiVars, chans, ctxDone, askVars, opt, mainPc,
                runResult, innerErr, doneSends, logs, runner, phasesRun, auxPc, drainPc>>
\* what a step that calls a source-control helper leaves alone
BLGitFrame ==
    UNCHANGED <<pfile, lg, logPc, gitLog, partVars, ssVars, harnessVars, uiVars, chans,
                ctxDone, askVars, opt, mainPc, runResult, innerErr, doneSends, logs,
                runner, phasesRun, auxPc, drainPc>>
\* what a step that starts an AskQuestion call leaves alone
BLAskFrame ==
    UNCHANGED <<envVars, ssVars, harnessVars, uiVars, ctxDone, opt, mainPc, runResult, innerErr,
                doneSends, logs, phasesRun, auxPc, drainPc>>
\* what a step that takes the result of an AskQuestion call leaves alone
BLAnsweredFrame ==
    UNCHANGED <<envVars, ssVars, harnessVars, uiVars, chans, ctxDone, nAsked, opt,
                mainPc, runResult, innerErr, doneSends, logs, runner, phasesRun, auxPc,
                drainPc>>

\* an AskYesNo that returns true for every answer
AnswerAlwaysYes(answer) == TRUE
\* AskYesNo (input_collector.go:56-62): the answer counts as yes
AnswerIsYes(answer) == answer = "Yes"
\* a check of the answer that takes every answer for a yes
AnyAnswerIsYes(answer) == TRUE
\* strings.HasPrefix(answer, "Yes") (main.go:565) on the answers a user can give
HasPrefixYes(answer) == answer \in {"Yes", "Yes, execute plan"}

\* return err from the function the goroutine is in, to the position ret
Return(ret, err) == bl' = [bl EXCEPT !.pc = ret, !.err = err]
Goto(pc) == bl' = [bl EXCEPT !.pc = pc]

\* a sender.Send call of the goroutine enters SafeSender.Send
BLSendCall ==
    /\ Alive
    /\ bl.pc \in BLSites
    /\ SendEnter("bl", BLMsg(bl))
    /\ doneSends' = IF bl.pc = "done_send" THEN doneSends + 1 ELSE doneSends
    /\ UNCHANGED <<envVars, harnessVars, uiVars, chans, ctxDone, askVars, opt, mainPc, runResult,
                   bl, innerErr, logs, runner, phasesRun, auxPc, drainPc>>

\* the call returns
BLSendReturn ==
    /\ Alive
    /\ bl.pc \in BLSites
    /\ SendReturn("bl")
    /\ Goto(BLNext[bl.pc])
    /\ UNCHANGED <<envVars, harnessVars, uiVars, chans, ctxDone, askVars, opt, mainPc, runResult,
                   innerErr, doneSends, logs, runner, phasesRun, auxPc, drainPc>>

\* ensureRepoHasCommitsTUI (main.go:370-378): gitOps.HasCommits()
EnsureCommitsCheck ==
    /\ Alive
    /\ bl.pc = "ec_check"
    /\ \E F \in {{}, {"HasCommits"}} :
         IF "HasCommits" \in F THEN Return("inner_ret", "check commits")
         ELSE Goto(IF repo.hasCommits THEN "dispatch" ELSE "ec_out")
    /\ BLOnly

\* asker.AskYesNo (main.go:379-383, input_collector.go:56-62)
EnsureCommitsAsk ==
    /\ Alive
    /\ bl.pc = "ec_ask"
    /\ AskCall("ans1", RootCtx, <<"Yes", "No">>)
    /\ Goto("ec_wait")
    /\ UNCHANGED runner
    /\ BLAskFrame

\* the answer to "create initial commit?" (main.go:384-395)
EnsureCommitsAnswered ==
    /\ Alive
    /\ bl.pc = "ec_wait"
    /\ askPc = "done"
    /\ askPc' = "idle"
    /\ ask' = NoAsk
    /\ askResult' = NoResult
    /\ IF askResult.err # "nil"
         THEN Return("inner_ret", "create initial commit") /\ UNCHANGED repo
       ELSE IF ~AnswerIsYes(askResult.answer)
         THEN Return("inner_ret", "no commits") /\ UNCHANGED repo
       ELSE \E F \in {{}, {"CreateInitialCommit"}} :
              IF "CreateInitialCommit" \in F
                THEN Return("inner_ret", "create initial commit") /\ UNCHANGED repo
                ELSE Goto("ec_created") /\ repo' = CreateInitialCommit(repo)
    /\ UNCHANGED <<pfile, lg, logPc, gitLog, partVars, ssVars, harnessVars, uiVars, chans,
                   ctxDone, nAsked, opt, mainPc, runResult, innerErr, doneSends, logs,
                   runner, phasesRun, auxPc, drainPc>>

\* runBusinessLogicInner (main.go:259-294) after the commit check, with the part of
\* resolvePlanFile (main.go:297-330) that needs no selection
Dispatch ==
    /\ Alive
    /\ bl.pc = "dispatch"
    /\ LET mode == determineMode(opt) IN
       IF mode = "plan"
         THEN bl' = [bl EXCEPT !.pc = "pm_start", !.pmFrom = "inner", !.mode = mode]
       ELSE IF opt.PlanFile = "missing.md"
         THEN bl' = [bl EXCEPT !.pc = "inner_ret", !.err = "plan file not found",
                               !.mode = mode]
       ELSE IF opt.PlanFile # "" \/ opt.Review \/ opt.CodexOnly
         THEN bl' = [bl EXCEPT !.pc = "setup", !.planFile = opt.PlanFile, !.mode = mode]
       ELSE bl' = [bl EXCEPT !.pc = "wps_send", !.mode = mode]
    /\ BLOnly

\* a case <-ctx.Done() that returns without an error
WaitPlanCtxNoError ==
    /\ Alive
    /\ bl.pc = "wps_select"
    /\ ctxDone[RootCtx]
    /\ drainPc' = "waiting"
    /\ Return("inner_ret", "nil")
    /\ UNCHANGED <<envVars, ssVars, harnessVars, uiVars, chans, ctxDone, askVars, opt, mainPc,
                   runResult, innerErr, doneSends, logs, runner, phasesRun, auxPc>>

\* waitForPlanSelection, case <-ctx.Done() (main.go:341-346): the drain goroutine
\* is started
WaitPlanCtx ==
    /\ Alive
    /\ bl.pc = "wps_select"
    /\ ctxDone[RootCtx]
    /\ drainPc' = "waiting"
    /\ Return("inner_ret", "wait for plan selection")
    /\ UNCHANGED <<envVars, ssVars, harnessVars, uiVars, chans, ctxDone, askVars, opt, mainPc,
                   runResult, innerErr, doneSends, logs, runner, phasesRun, auxPc>>

\* waitForPlanSelection, case result := <-resultCh (main.go:347-365), and the rest
\* of resolvePlanFile (main.go:316-329)
WaitPlanRecv ==
    /\ Alive
    /\ bl.pc = "wps_select"
    /\ CanRecv(chans, "result")
    /\ LET result == Head(chans["result"].buf) IN
       IF result.err # "nil" THEN Return("inner_ret", result.err)
       ELSE IF result.desc # ""
         THEN bl' = [bl EXCEPT !.pc = "pm_start", !.pmFrom = "wps"]
       ELSE IF result.path = "" THEN Return("inner_ret", "plan file required")
       ELSE bl' = [bl EXCEPT !.pc = "setup", !.planFile = result.path]
    /\ chans' = ChDrop(chans, "result")
    /\ UNCHANGED <<envVars, ssVars, harnessVars, uiVars, ctxDone, askVars, opt, mainPc, runResult,
                   innerErr, doneSends, logs, runner, phasesRun, auxPc, drainPc>>

\* go func() { <-resultCh }() (main.go:345)
DrainRecv ==
    /\ Alive
    /\ drainPc = "waiting"
    /\ CanRecv(chans, "result")
    /\ chans' = ChDrop(chans, "result")
    /\ drainPc' = "done"
    /\ UNCHANGED <<envVars, ssVars, harnessVars, uiVars, ctxDone, askVars, opt, mainPc, runResult,
                   bl, innerErr, doneSends, logs, runner, phasesRun, auxPc>>

\* where the goroutine goes after a source-control helper: on with ok, or out with
\* the error to ret; a helper that sent output passes the Send position first
AfterGit(res, ok, okOut, ret, errOut) ==
    IF res.err = "nil" THEN Goto(IF res.sent THEN okOut ELSE ok)
    ELSE Return(IF res.sent THEN errOut ELSE ret, res.err)

\* runBusinessLogicInner (main.go:284-286): setupGitForExecution (main.go:612-622);
\* the changes of the helper are one step, its output follows
SetupGit ==
    /\ Alive
    /\ bl.pc = "setup"
    /\ \E F \in RunFailSets :
         LET res == setupGitForExecution(repo, bl.planFile, bl.mode, F)
         IN /\ repo' = res.repo
            /\ IF res.err = "nil"
                 THEN bl' = [bl EXCEPT !.pc = IF res.sent THEN "setup_out" ELSE "ex_newlog",
                                       !.execFrom = "inner"]
                 ELSE Return(IF res.sent THEN "setup_err_out" ELSE "inner_ret", res.err)
    /\ BLGitFrame

\* what a step that opens or closes a progress logger leaves alone
BLLogFrame ==
    UNCHANGED <<envVars, ssVars, harnessVars, uiVars, chans, ctxDone, askVars, opt, mainPc,
                runResult, innerErr, doneSends, runner, phasesRun, auxPc, drainPc>>
\* what a step of the Runner leaves alone
BLRunnerFrame ==
    UNCHANGED <<envVars, ssVars, harnessVars, uiVars, chans, ctxDone, askVars, opt, mainPc,
                runResult, innerErr, doneSends, logs, auxPc, drainPc>>

\* teaLogger.Close (logger.go:228-244): the footer is written
Close(l) == logs' = [logs EXCEPT ![l] = "closed"]

\* executePlanTUI (main.go:400-420): tui.NewLogger and the deferred Close
ExecNewLogger ==
    /\ Alive
    /\ bl.pc = "ex_newlog"
    /\ \E ok \in BOOLEAN :
         IF ok THEN /\ logs' = [logs EXCEPT !["exec"] = "open"]
                    /\ bl' = [bl EXCEPT !.pc = "ex_startup", !.tuiLogClosed = FALSE]
               ELSE /\ Return("ex_defer", "create TUI logger")
                    /\ UNCHANGED logs
    /\ BLLogFrame

\* executePlanTUI (main.go:428-444): startWebDashboard when --serve is set; the
\* late-error goroutine (main.go:1074-1080) is started with the server
ExecWeb ==
    /\ Alive
    /\ bl.pc = "ex_web"
    /\ IF ~opt.Serve
         THEN Goto("ex_print") /\ UNCHANGED auxPc
         ELSE \E ok \in BOOLEAN :
                IF ok THEN Goto("ex_web_out") /\ auxPc' = "armed"
                      ELSE Return("ex_defer", "web dashboard") /\ UNCHANGED auxPc
    /\ UNCHANGED <<envVars, ssVars, harnessVars, uiVars, chans, ctxDone, askVars, opt, mainPc,
                   runResult, innerErr, doneSends, logs, runner, phasesRun, drainPc>>

\* executePlanTUI (main.go:452-453): createRunner, and r.Run is entered
ExecRun ==
    /\ Alive
    /\ bl.pc = "ex_run"
    /\ runner' = NewRunner(bl.mode, opt.CodexEnabled, "ex")
    /\ phasesRun' = <<>>
    /\ Goto("r_next")
    /\ BLRunnerFrame

\* Runner.Run comes back to its caller
RunnerReturn(err) ==
    /\ Return(IF runner.from = "ex" THEN "ex_ran" ELSE "pm_ran", err)
    /\ UNCHANGED <<runner, phasesRun>>

\* Runner.Run: the next phase of the pipeline, or the end of it
RunnerNext ==
    /\ Alive
    /\ bl.pc = "r_next"
    /\ IF runner.queue = <<>>
         THEN RunnerReturn("nil")
         ELSE /\ phasesRun' = Append(phasesRun, Head(runner.queue))
              /\ Goto("r_phase")
              /\ UNCHANGED runner
    /\ BLRunnerFrame

\* a cap that lets one iteration more than MaxIterations run
MayRelaunchPastCap(iter) == iter < MaxIterations

\* Runner.Run: after iteration iter (counted from 0) another one may be launched;
\* MaxIterations is inclusive, the iterations are 0 .. MaxIterations - 1
MayRelaunch(iter) == iter + 1 < MaxIterations

\* a retry rule that compares the counter after incrementing it
MayRetryAfterIncrement(retries) == retries + 1 < TaskRetryCount

\* Runner.Run: a TASK_FAILED after retries retries of this episode is retried;
\* TaskRetryCount retries are TaskRetryCount + 1 attempts
MayRetry(retries) == retries < TaskRetryCount

\* how one subprocess run of a phase ends
Outcomes == {"signal", "exit", "failed", "launch", "cancel", "question"}

\* Runner.Run: one iteration of the phase loop has run its subprocess
RunnerExec ==
    /\ Alive
    /\ bl.pc = "r_exec"
    /\ \E out \in Outcomes :
         CASE out = "signal" ->
                /\ runner' = [runner EXCEPT !.queue = Tail(@), !.iter = 0, !.retries = 0]
                /\ Goto("r_next")
                /\ UNCHANGED phasesRun
           [] out = "exit" ->
                IF MayRelaunch(runner.iter)
                  THEN /\ runner' = [runner EXCEPT !.iter = @ + 1, !.retries = 0]
                       /\ Goto("r_section")
                       /\ UNCHANGED phasesRun
                  ELSE RunnerReturn("iteration cap exhausted")
           [] out = "failed" ->
                /\ Head(runner.queue) = "task"
                /\ IF ~MayRetry(runner.retries)
                     THEN RunnerReturn("task failed")
                     ELSE IF MayRelaunch(runner.iter)
                       THEN /\ runner' = [runner EXCEPT !.iter = @ + 1, !.retries = @ + 1]
                            /\ Goto("r_section")
                            /\ UNCHANGED phasesRun
                       ELSE RunnerReturn("iteration cap exhausted")
           [] out = "launch" -> RunnerReturn("launch error")
           [] out = "cancel" -> ctxDone[RootCtx] /\ RunnerReturn("context canceled")
           [] OTHER ->
                /\ Head(runner.queue) = "plan"
                /\ runner.asked < MaxPlanQuestions
                /\ Goto("r_question")
                /\ UNCHANGED <<runner, phasesRun>>
    /\ BLRunnerFrame

\* Runner.Run, Plan phase: the QUESTION signal goes to the input collector
RunnerAsk ==
    /\ Alive
    /\ bl.pc = "r_ask"
    /\ AskCall("ans2", RootCtx, <<"A", "B", "C">>)
    /\ runner' = [runner EXCEPT !.asked = @ + 1]
    /\ Goto("r_wait")
    /\ BLAskFrame

\* Runner.Run, Plan phase: the answer joins the transcript, an error ends the run
RunnerAnswered ==
    /\ Alive
    /\ bl.pc = "r_wait"
    /\ askPc = "done"
    /\ askPc' = "idle"
    /\ ask' = NoAsk
    /\ askResult' = NoResult
    /\ IF askResult.err # "nil"
         THEN Return(IF runner.from = "ex" THEN "ex_ran" ELSE "pm_ran", "question")
         ELSE Goto("r_answer")
    /\ BLAnsweredFrame

\* executePlanTUI (main.go:453-458): the runner's result and handlePostExecution
\* (main.go:602-609)
ExecRan ==
    /\ Alive
    /\ bl.pc = "ex_ran"
    /\ IF bl.err # "nil" THEN Return("ex_defer", "runner") /\ UNCHANGED repo
       ELSE \E F \in RunFailSets :
              LET res == handlePostExecution(repo, bl.planFile, bl.mode, F)
              IN /\ repo' = res.repo
                 /\ Goto(IF res.sent THEN "ex_post" ELSE "ex_completed")
    /\ BLGitFrame

\* executePlanTUI (main.go:463-474): --serve keeps the goroutine alive
ExecAfter ==
    /\ Alive
    /\ bl.pc = "ex_after"
    /\ Goto(IF opt.Serve THEN "ex_serve_out" ELSE "ex_defer")
    /\ BLOnly

\* executePlanTUI (main.go:466-469): tuiLog.Close() before the wait
ExecServeClose ==
    /\ Alive
    /\ bl.pc = "ex_serve_close"
    /\ Close("exec")
    /\ bl' = [bl EXCEPT !.pc = "ex_serve_wait", !.tuiLogClosed = TRUE]
    /\ BLLogFrame

\* executePlanTUI (main.go:470-471): <-ctx.Done()
ExecServeWait ==
    /\ Alive
    /\ bl.pc = "ex_serve_wait"
    /\ ctxDone[RootCtx]
    /\ Goto("ex_defer")
    /\ BLOnly

\* executePlanTUI returns: the deferred Close (main.go:413-420), unless NewLogger
\* had failed or the logger is closed already
ExecDefer ==
    /\ Alive
    /\ bl.pc = "ex_defer"
    /\ IF logs["exec"] = "open" /\ ~bl.tuiLogClosed THEN Close("exec") ELSE UNCHANGED logs
    /\ Goto(IF bl.execFrom = "pm" THEN "pm_defer" ELSE "inner_ret")
    /\ BLLogFrame

\* runPlanModeTUI (main.go:478-483): ensureGitignore
PlanModeStart ==
    /\ Alive
    /\ bl.pc = "pm_start"
    /\ \E F \in RunFailSets :
         LET res == ensureGitignore(repo, F)
         IN /\ repo' = res.repo
            /\ AfterGit(res, "pm_newlog", "pm_gitignore", "pm_defer", "pm_defer")
    /\ BLGitFrame

\* runPlanModeTUI (main.go:487-499): tui.NewLogger and the deferred Close
PlanNewLogger ==
    /\ Alive
    /\ bl.pc = "pm_newlog"
    /\ \E ok \in BOOLEAN :
         IF ok THEN /\ logs' = [logs EXCEPT !["plan"] = "open"]
                    /\ Goto("pm_startup")
               ELSE /\ Return("pm_defer", "create TUI logger")
                    /\ UNCHANGED logs
    /\ BLLogFrame

\* runPlanModeTUI (main.go:513-532): the collector, processor.New, and r.Run is
\* entered
PlanRun ==
    /\ Alive
    /\ bl.pc = "pm_run"
    /\ runner' = NewRunner("plan", opt.CodexEnabled, "pm")
    /\ phasesRun' = <<>>
    /\ Goto("r_next")
    /\ BLRunnerFrame

\* runPlanModeTUI (main.go:532-538): the runner's result and findRecentPlan
PlanRan ==
    /\ Alive
    /\ bl.pc = "pm_ran"
    /\ IF bl.err # "nil" THEN Return("pm_defer", "plan creation") /\ UNCHANGED repo
       ELSE \E found \in {"", PlanName} :
              /\ bl' = [bl EXCEPT !.pc = "pm_found", !.planFile = found]
              /\ repo' = IF found = "" THEN repo ELSE [repo EXCEPT !.planDirty = TRUE]
    /\ BLGitFrame

\* runPlanModeTUI (main.go:551-553): no plan file was created
PlanNoFile ==
    /\ Alive
    /\ bl.pc = "pm_cont"
    /\ bl.planFile = ""
    /\ Goto("pm_defer")
    /\ BLOnly

\* runPlanModeTUI (main.go:556-557): "Continue with plan implementation?"
PlanContinueAsk ==
    /\ Alive
    /\ bl.pc = "pm_cont"
    /\ bl.planFile # ""
    /\ AskCall("ans2", RootCtx, <<"Yes, execute plan", "No, exit">>)
    /\ Goto("pm_wait")
    /\ UNCHANGED runner
    /\ BLAskFrame

\* runPlanModeTUI (main.go:558-567): the answer
PlanContinueAnswered ==
    /\ Alive
    /\ bl.pc = "pm_wait"
    /\ askPc = "done"
    /\ askPc' = "idle"
    /\ ask' = NoAsk
    /\ askResult' = NoResult
    /\ IF askResult.err # "nil"
         THEN Goto(IF ctxDone[RootCtx] THEN "pm_defer" ELSE "pm_warn")
       ELSE IF ~HasPrefixYes(askResult.answer) THEN Goto("pm_defer")
       ELSE Goto("pm_continuing")
    /\ BLAnsweredFrame

\* runPlanModeTUI (main.go:572-574): createBranchIfNeeded
PlanBranch ==
    /\ Alive
    /\ bl.pc = "pm_branch"
    /\ \E F \in RunFailSets :
         LET res == createBranchIfNeeded(repo, bl.planFile, F)
         IN /\ repo' = res.repo
            /\ AfterGit(res, "pm_exec", "pm_branch_out", "pm_defer", "pm_branch_err_out")
    /\ BLGitFrame

\* runPlanModeTUI (main.go:576-581): executePlanTUI in Full mode on the new plan
PlanExec ==
    /\ Alive
    /\ bl.pc = "pm_exec"
    /\ bl' = [bl EXCEPT !.pc = "ex_newlog", !.mode = "full", !.execFrom = "pm"]
    /\ BLOnly

\* runPlanModeTUI returns: the deferred Close (main.go:495-499), unless NewLogger
\* was not reached or had failed; waitForPlanSelection turns a nil result into
\* errPlanModeCompleted (main.go:354-362)
PlanDefer ==
    /\ Alive
    /\ bl.pc = "pm_defer"
    /\ IF logs["plan"] = "open" THEN Close("plan") ELSE UNCHANGED logs
    /\ Return("inner_ret",
              IF bl.pmFrom = "wps" /\ bl.err = "nil" THEN "errPlanModeCompleted"
              ELSE bl.err)
    /\ BLLogFrame

\* runBusinessLogic (main.go:243): runBusinessLogicInner has returned
InnerReturn ==
    /\ Alive
    /\ bl.pc = "inner_ret"
    /\ innerErr' = bl.err
    /\ Goto("done_send")
    /\ UNCHANGED <<envVars, ssVars, harnessVars, uiVars, chans, ctxDone, askVars, opt, mainPc,
                   runResult, doneSends, logs, runner, phasesRun, auxPc, drainPc>>

\* the late-error goroutine receives a server error and reports it
\* (main.go:1074-1080)
AuxSendCall ==
    /\ Alive
    /\ auxPc = "armed"
    /\ SendEnter("aux", [type |-> "Output", at |-> "late server error"])
    /\ auxPc' = "sending"
    /\ UNCHANGED <<envVars, harnessVars, uiVars, chans, ctxDone, askVars, opt, mainPc, runResult,
                   bl, innerErr, doneSends, logs, runner, phasesRun, drainPc>>

AuxSendReturn ==
    /\ Alive
    /\ auxPc = "sending"
    /\ SendReturn("aux")
    /\ auxPc' = "done"
    /\ UNCHANGED <<envVars, harnessVars, uiVars, chans, ctxDone, askVars, opt, mainPc, runResult,
                   bl, innerErr, doneSends, logs, runner, phasesRun, drainPc>>

\* run() (main.go:193-196): p.Run() has returned, safeSender.Stop() is entered
RunProgramEnded ==
    /\ mainPc = "run"
    /\ loopPc = "exited"
    /\ StopCall("main")
    /\ mainPc' = "stop"
    /\ UNCHANGED <<envVars, harnessVars, uiVars, chans, ctxDone, askVars, opt, runResult, bl,
                   innerErr, doneSends, logs, runner, phasesRun, auxPc, drainPc>>

\* run() (main.go:196-208): Stop() comes back, and run() returns the TUI error, the
\* error of the final model, or nil
RunReturn ==
    /\ mainPc = "stop"
    /\ StopFlip("main")
    /\ mainPc' = "exited"
    /\ runResult' = IF loopErr # "nil" THEN "TUI"
                    ELSE IF model.err # "nil" THEN "execution"
                    ELSE "nil"
    /\ UNCHANGED <<envVars, harnessVars, uiVars, chans, ctxDone, askVars, opt, bl, innerErr,
                   doneSends, logs, runner, phasesRun, auxPc, drainPc>>

\* no run(): the state of the specifications of the parts
ProgIdle ==
    /\ opt = Opt(FALSE, FALSE, FALSE, "", FALSE, TRUE, FALSE)
    /\ mainPc = "none"
    /\ runResult = "none"
    /\ bl = NewBL
    /\ innerErr = "none"
    /\ doneSends = 0
    /\ logs = [l \in {"plan", "exec"} |-> "none"]
    /\ runner = NoRunner
    /\ phasesRun = <<>>
    /\ auxPc = "none"
    /\ drainPc = "none"

\* ------------------------------------------------ the harness of the tests
HarnessMsg(t, k) == [type |-> "Output", from |-> t, seq |-> k]

\* a test goroutine calls ss.Send
HSend(t) ==
    /\ UNCHANGED <<envVars, uiVars, chans, ctxDone, askVars, progVars>>
    /\ hSent[t] < MaxSends
    /\ SendEnter(t, HarnessMsg(t, hSent[t] + 1))
    /\ hSent' = [hSent EXCEPT ![t] = @ + 1]
    /\ afterStop' = IF stopsDone > 0
                      THEN afterStop \cup {HarnessMsg(t, hSent[t] + 1)}
                      ELSE afterStop
    /\ UNCHANGED <<delivered, stopPc, stopsCalled, stopsDone, beforeStop>>

\* mockSender.Send: the wrapped sender records the message
MockSend(t) ==
    /\ UNCHANGED <<envVars, uiVars, chans, ctxDone, askVars, progVars>>
    /\ sendPc[t] = "inner"
    /\ delivered' = Append(delivered, sendMsg[t])
    /\ sendPc' = [sendPc EXCEPT ![t] = "unlock"]
    /\ UNCHANGED <<stopped, muReaders, muWaiting, sendMsg>>
    /\ UNCHANGED <<hSent, stopPc, stopsCalled, stopsDone, afterStop, beforeStop>>

HSendReturn(t) ==
    /\ UNCHANGED <<envVars, uiVars, chans, ctxDone, askVars, progVars>>
    /\ beforeStop' = IF stopsCalled = 0
                       THEN beforeStop \cup {sendMsg[t]}
                       ELSE beforeStop
    /\ SendReturn(t)
    /\ UNCHANGED <<delivered, hSent, stopPc, stopsCalled, stopsDone, afterStop>>

HStopCall ==
    /\ UNCHANGED <<envVars, uiVars, chans, ctxDone, askVars, progVars>>
    /\ stopPc = "idle"
    /\ stopsCalled < MaxStops
    /\ StopCall("main")
    /\ stopPc' = "lock"
    /\ stopsCalled' = stopsCalled + 1
    /\ UNCHANGED <<delivered, hSent, stopsDone, afterStop, beforeStop>>

HStopFlip ==
    /\ UNCHANGED <<envVars, uiVars, chans, ctxDone, askVars, progVars>>
    /\ stopPc = "lock"
    /\ StopFlip("main")
    /\ stopPc' = "idle"
    /\ stopsDone' = stopsDone + 1
    /\ UNCHANGED <<delivered, hSent, stopsCalled, afterStop, beforeStop>>

\* ------------------------------ the output buffer and its viewport (tui.go)
\* maxOutputLines (tui.go:180) is 10000 in the program; the model keeps this many
maxOutputLines == 3
\* the content heights the viewport is given by the first WindowSizeMsg
MaxHeight == 2
\* appendOutput calls made on one model
MaxAppends == 5
\* the texts of the lines appended
OutputLines == {"a", "b"}
ScrollKeys == {"up", "k", "down", "j", "pgup", "pgdown", "home", "end"}

Max(a, b) == IF a > b THEN a ELSE b
Min(a, b) == IF a < b THEN a ELSE b

\* NewModel (tui.go:71-79) after the first WindowSizeMsg (tui.go:294-303): no
\* output, auto-scroll on, a viewport of the given content height at the top
NewView(height) ==
    [output |-> <<>>, autoScroll |-> TRUE, yoff |-> 0, height |-> height,
     appended |-> <<>>]
NoView == NewView(0)

\* bubbles viewport.Model, as far as tui.go uses it: the content is the output
\* lines, YOffset is the index of the first line shown
maxYOffset(v) == Max(0, Len(v.output) - v.height)
AtTop(v) == v.yoff <= 0
AtBottom(v) == v.yoff >= maxYOffset(v)
SetYOffset(v, n) == [v EXCEPT !.yoff = Max(0, Min(n, maxYOffset(v)))]
ScrollUp(v, n) == IF AtTop(v) THEN v ELSE SetYOffset(v, v.yoff - n)
ScrollDown(v, n) == IF AtBottom(v) THEN v ELSE SetYOffset(v, v.yoff + n)
PageUp(v) == ScrollUp(v, v.height)
PageDown(v) == ScrollDown(v, v.height)
GotoTop(v) == [v EXCEPT !.yoff = 0]
GotoBottom(v) == [v EXCEPT !.yoff = maxYOffset(v)]
\* SetContent: new lines; an offset past the last line goes to the bottom
SetContent(v, lines) ==
    LET w == [v EXCEPT !.output = lines]
    IN  IF w.yoff > Len(lines) - 1 THEN GotoBottom(w) ELSE w

\* the last n elements of s
LastN(s, n) == SubSeq(s, Len(s) - Min(n, Len(s)) + 1, Len(s))

\* an appendOutput that trims at the cap by dropping the new line
appendOutputKeepOldest(v, line) ==
    LET out == IF Len(v.output) >= maxOutputLines THEN v.output
               ELSE Append(v.output, line)
        w   == SetContent(v, out)
    IN  IF v.autoScroll THEN GotoBottom(w) ELSE w

\* Model.appendOutput (tui.go:182-194)
appendOutput(v, line) ==
    LET out == Append(v.output, line)
        cut == IF Len(out) > maxOutputLines
                 THEN SubSeq(out, Len(out) - maxOutputLines + 1, Len(out))
                 ELSE out
        w   == SetContent(v, cut)
    IN  IF v.autoScroll THEN GotoBottom(w) ELSE w

\* a scroll handler that never switches auto-scroll off
updateViewportScrollKeepAuto(v, k) ==
    CASE k \in {"up", "k"} -> ScrollUp(v, 1)
      [] k \in {"down", "j"} ->
           LET w == ScrollDown(v, 1)
           IN  IF AtBottom(w) THEN [w EXCEPT !.autoScroll = TRUE] ELSE w
      [] k = "pgup" -> PageUp(v)
      [] k = "pgdown" ->
           LET w == PageDown(v)
           IN  IF AtBottom(w) THEN [w EXCEPT !.autoScroll = TRUE] ELSE w
      [] k = "home" -> GotoTop(v)
      [] k = "end" -> [GotoBottom(v) EXCEPT !.autoScroll = TRUE]
      [] OTHER -> v

\* the scroll keys of Model.updateViewportKey (tui.go:245-267)
updateViewportScroll(v, k) ==
    CASE k \in {"up", "k"} -> [ScrollUp(v, 1) EXCEPT !.autoScroll = FALSE]
      [] k \in {"down", "j"} ->
           LET w == ScrollDown(v, 1)
           IN  IF AtBottom(w) THEN [w EXCEPT !.autoScroll = TRUE] ELSE w
      [] k = "pgup" -> [PageUp(v) EXCEPT !.autoScroll = FALSE]
      [] k = "pgdown" ->
           LET w == PageDown(v)
           IN  IF AtBottom(w) THEN [w EXCEPT !.autoScroll = TRUE] ELSE w
      [] k = "home" -> [GotoTop(v) EXCEPT !.autoScroll = FALSE]
      [] k = "end" -> [GotoBottom(v) EXCEPT !.autoScroll = TRUE]
      [] OTHER -> v

ViewIdle == view = NoView

\* ------------------------------------ the broadcast logger (pkg/web)
\* calls made on one broadcast logger
MaxLogCalls == 4
\* task iterations whose sections are printed
MaxTaskIter == 2
Phases == {"task", "review", "codex"}
\* the sections: TaskIteration(n), ClaudeReview(n, suffix), CodexIteration(n) and
\* Generic(label)
Sections ==
    {[type |-> "TaskIteration", n |-> n] : n \in 1..MaxTaskIter}
      \cup {[type |-> "ClaudeReview", n |-> 1], [type |-> "CodexIteration", n |-> 1],
            [type |-> "Generic", n |-> 0]}

SetPhaseCall(p) == [fn |-> "SetPhase", phase |-> p, n |-> 0]
PrintSectionCall(sec) == [fn |-> "PrintSection", phase |-> sec.type, n |-> sec.n]
PrintCall == [fn |-> "Print", phase |-> "", n |-> 0]
\* the task_end boundary event naming a task iteration
TaskEnd(n) == [kind |-> "task_end", n |-> n]

\* NewBroadcastLogger: the phase is Task, no task iteration seen; with it the calls
\* made on the logger, the calls it made on the inner logger and the events it
\* published to the session
NewBroadcastLogger ==
    [phase |-> "task", currentTask |-> 0, calls |-> <<>>, inner |-> <<>>,
     events |-> <<>>]
NoBroadcast == [NewBroadcastLogger EXCEPT !.phase = ""]

\* a SetPhase that keeps the task iteration index when the Task phase ends
SetPhaseKeepTask(b, p, named) ==
    LET leaving == b.phase = "task" /\ p # "task" /\ (b.currentTask > 0 \/ named)
    IN  [b EXCEPT !.phase = p,
                  !.inner = Append(@, SetPhaseCall(p)),
                  !.events = IF leaving THEN Append(@, TaskEnd(b.currentTask)) ELSE @]

\* BroadcastLogger.SetPhase: out of Task, the task_end event naming the last task
\* iteration seen is published and the index is reset; the phase is taken and
\* forwarded to the inner logger. named: whether the event is published as well
\* when no task iteration was seen, which the specification leaves open
SetPhase(b, p, named) ==
    LET leaving == b.phase = "task" /\ p # "task" /\ (b.currentTask > 0 \/ named)
    IN  [b EXCEPT !.phase = p,
                  !.currentTask = IF b.phase = "task" /\ p # "task" THEN 0 ELSE @,
                  !.inner = Append(@, SetPhaseCall(p)),
                  !.events = IF leaving THEN Append(@, TaskEnd(b.currentTask)) ELSE @]

\* BroadcastLogger.PrintSection: the section goes to the inner logger and to the
\* session; a TaskIteration(n) makes n the last task iteration seen
PrintSection(b, sec) ==
    [b EXCEPT !.currentTask = IF sec.type = "TaskIteration" THEN sec.n ELSE @,
              !.inner = Append(@, PrintSectionCall(sec)),
              !.events = Append(@, [kind |-> "section", n |-> sec.n])]

\* BroadcastLogger.Print with one text: the line goes to the inner logger and to
\* the session
PrintLine(b) ==
    [b EXCEPT !.inner = Append(@, PrintCall),
              !.events = Append(@, [kind |-> "line", n |-> 0])]

BroadcastIdle == bcast = NoBroadcast
\* ------------------------------------------- the start of run() (main.go)
\* the options as parsed: --plan given or not, the flags, the positional plan
\* file, the --watch directories
FlagSets ==
    [PlanDescription : BOOLEAN, CodexOnly : BOOLEAN, Review : BOOLEAN,
     PlanFile : {"", PlanName}, Serve : BOOLEAN, Reset : BOOLEAN,
     Watch : {<<>>, <<"/tmp">>}]
\* cfg.WatchDirs
ConfigWatchDirs == {<<>>, <<"/home">>}

\* an isWatchOnlyMode that looks at the --watch directories of the CLI only
isWatchOnlyModeCliDirs(o, configWatchDirs) ==
    o.Serve /\ o.PlanFile = "" /\ ~o.PlanDescription /\ Len(o.Watch) > 0

\* isWatchOnlyMode (main.go:646-648)
isWatchOnlyMode(o, configWatchDirs) ==
    o.Serve /\ o.PlanFile = "" /\ ~o.PlanDescription
      /\ (Len(o.Watch) > 0 \/ Len(configWatchDirs) > 0)

\* validateFlags (main.go:665-670): the error, or "nil"
validateFlags(o) ==
    IF o.PlanDescription /\ o.PlanFile # "" THEN "flag conflict" ELSE "nil"

\* isResetOnly (main.go:1101-1103)
isResetOnly(o) ==
    o.PlanFile = "" /\ ~o.Review /\ ~o.CodexOnly /\ ~o.Serve /\ ~o.PlanDescription
      /\ Len(o.Watch) = 0

\* run() up to the TUI (main.go:113-160), with a reset and a configuration that
\* load: the error it returns, or what it goes on to do
runStart(o, configWatchDirs, inRepo, depOk) ==
    IF validateFlags(o) # "nil" THEN "flag conflict"
    ELSE IF o.Reset /\ isResetOnly(o) THEN "reset only"
    ELSE IF isWatchOnlyMode(o, configWatchDirs) THEN "watch only"
    ELSE IF ~depOk THEN "dependency missing"
    ELSE IF ~inRepo THEN "must run from repository root"
    ELSE "tui"

\* ---------------------------------- extractBranchName on paths (main.go)
\* the longest plan path
MaxPathLen == 6
\* the characters of a plan path: the separator, the dash, a digit, and the
\* characters of the suffix, which are letters of names as well
PathChars == {"/", "-", "1", ".", "m", "d"}
Paths == UNION {[1..n -> PathChars] : n \in 0..MaxPathLen}
Digits == {"0", "1", "2", "3", "4", "5", "6", "7", "8", "9"}
MdSuffix == <<".", "m", "d">>

\* strings.TrimRight(s, cutset) and strings.TrimLeft(s, cutset)
RECURSIVE TrimRight(_, _)
TrimRight(s, cutset) ==
    IF s # <<>> /\ s[Len(s)] \in cutset THEN TrimRight(SubSeq(s, 1, Len(s) - 1), cutset)
    ELSE s
RECURSIVE TrimLeft(_, _)
TrimLeft(s, cutset) ==
    IF s # <<>> /\ Head(s) \in cutset THEN TrimLeft(Tail(s), cutset) ELSE s

\* filepath.Base: "." for the empty path; trailing separators are dropped, then
\* everything up to the last separator; "/" for a path of separators only
Base(path) ==
    IF path = <<>> THEN <<".">>
    ELSE LET p == TrimRight(path, {"/"})
             slashes == {i \in 1..Len(p) : p[i] = "/"}
             last == IF slashes = {} THEN p
                     ELSE SubSeq(p, CHOOSE i \in slashes : \A j \in slashes : j <= i,
                                 Len(p))
             name == IF slashes = {} THEN p ELSE Tail(last)
         IN  IF name = <<>> THEN <<"/">> ELSE name

\* strings.TrimSuffix
TrimSuffix(s, suffix) ==
    IF Len(s) >= Len(suffix) /\ SubSeq(s, Len(s) - Len(suffix) + 1, Len(s)) = suffix
      THEN SubSeq(s, 1, Len(s) - Len(suffix))
      ELSE s

\* datePrefixRe.ReplaceAllString(name, "") (main.go:57): the leading run of digits
\* and dashes is removed
ReplaceDatePrefix(name) == TrimLeft(name, Digits \cup {"-"})

\* an extractBranchName without the fallback to the name
extractBranchNameNoFallback(planFile) ==
    TrimLeft(ReplaceDatePrefix(TrimSuffix(Base(planFile), MdSuffix)), {"-"})

\* extractBranchName (main.go:695-702) on the characters of the path
extractBranchNameOfPath(planFile) ==
    LET name == TrimSuffix(Base(planFile), MdSuffix)
        branchName == TrimLeft(ReplaceDatePrefix(name), {"-"})
    IN  IF branchName = <<>> THEN name ELSE branchName

\* ------------------- progressFilename and sanitizePlanName (pkg/tui, pkg/progress)
\* the length sanitizePlanName cuts a slug to (50 in the program)
SlugLimit == 3
\* the longest plan description
MaxDescLen == 5
\* the characters of a description: an upper-case letter, a lower-case letter, a
\* digit, the space, the dash, and a character that is none of these
DescChars == {"A", "b", "1", " ", "-", "!"}
Descriptions == UNION {[1..n -> DescChars] : n \in 0..MaxDescLen}
LowerLetters == {"a", "b", "c", "d", "e", "f", "g", "h", "i", "j", "k", "l", "m", "n",
                 "o", "p", "q", "r", "s", "t", "u", "v", "w", "x", "y", "z"}
Unnamed == <<"u", "n", "n", "a", "m", "e", "d">>

\* strings.ToLower on the characters of a description
ToLower(s) == [i \in 1..Len(s) |-> IF s[i] = "A" THEN "a" ELSE s[i]]

\* strings.ReplaceAll(s, " ", "-")
SpacesToDashes(s) == [i \in 1..Len(s) |-> IF s[i] = " " THEN "-" ELSE s[i]]

\* the loop over the runes that keeps a-z, 0-9 and the dash
KeepSlugRunes(s) == SelectSeq(s, LAMBDA r : r \in LowerLetters \cup Digits \cup {"-"})

\* strings.ReplaceAll(s, "--", "-"): one pass from the left over the
\* non-overlapping pairs
RECURSIVE ReplaceDoubleDash(_)
ReplaceDoubleDash(s) ==
    IF Len(s) < 2 THEN s
    ELSE IF s[1] = "-" /\ s[2] = "-" THEN <<"-">> \o ReplaceDoubleDash(SubSeq(s, 3, Len(s)))
    ELSE <<s[1]>> \o ReplaceDoubleDash(Tail(s))

\* strings.Contains(s, "--")
ContainsDoubleDash(s) == \E i \in 1..(Len(s) - 1) : s[i] = "-" /\ s[i + 1] = "-"

\* for strings.Contains(result, "--") { result = strings.ReplaceAll(...) }
RECURSIVE CollapseDashes(_)
CollapseDashes(s) ==
    IF ContainsDoubleDash(s) THEN CollapseDashes(ReplaceDoubleDash(s)) ELSE s

\* strings.Trim(s, "-")
TrimDashes(s) == TrimLeft(TrimRight(s, {"-"}), {"-"})

\* a sanitizePlanName that cuts the slug and leaves a dash at its end
sanitizePlanNameKeepDash(desc) ==
    LET clean == KeepSlugRunes(SpacesToDashes(ToLower(desc)))
        trimmed == TrimDashes(CollapseDashes(clean))
        cut == IF Len(trimmed) > SlugLimit THEN SubSeq(trimmed, 1, SlugLimit) ELSE trimmed
    IN  IF cut = <<>> THEN Unnamed ELSE cut

\* sanitizePlanName of pkg/tui (logger.go:313-340)
sanitizePlanName(desc) ==
    LET clean == KeepSlugRunes(SpacesToDashes(ToLower(desc)))
        trimmed == TrimDashes(CollapseDashes(clean))
        cut == IF Len(trimmed) > SlugLimit
                 THEN TrimRight(SubSeq(trimmed, 1, SlugLimit), {"-"})
                 ELSE trimmed
    IN  IF cut = <<>> THEN Unnamed ELSE cut

\* a sanitizePlanName that does not collapse the dashes
sanitizePlanNameNoCollapse(desc) ==
    LET clean == KeepSlugRunes(SpacesToDashes(ToLower(desc)))
        trimmed == TrimDashes(clean)
        cut == IF Len(trimmed) > SlugLimit
                 THEN TrimRight(SubSeq(trimmed, 1, SlugLimit), {"-"})
                 ELSE trimmed
    IN  IF cut = <<>> THEN Unnamed ELSE cut

\* sanitizePlanName of pkg/progress (progress.go:301-332)
sanitizePlanNameOfProgress(desc) ==
    LET lowered == SpacesToDashes(ToLower(desc))
        clean == KeepSlugRunes(lowered)
        collapsed == CollapseDashes(clean)
        trimmed == TrimDashes(collapsed)
        cut == IF Len(trimmed) > SlugLimit
                 THEN TrimRight(SubSeq(trimmed, 1, SlugLimit), {"-"})
                 ELSE trimmed
    IN  IF cut = <<>> THEN Unnamed ELSE cut

\* the words of the file names
ProgressWord == <<"p", "r", "o", "g", "r", "e", "s", "s">>
PlanWord == <<"p", "l", "a", "n">>
ReviewWord == <<"r", "e", "v", "i", "e", "w">>
CodexWord == <<"c", "o", "d", "e", "x">>
TxtSuffix == <<".", "t", "x", "t">>
Dash == <<"-">>

\* the modes of processor
Modes == {"full", "review", "codex-only", "plan"}

\* a progressFilename that names the file by the plan alone
progressFilenameAnyMode(planFile, planDescription, mode) ==
    IF mode = "plan" /\ planDescription # <<>>
      THEN ProgressWord \o Dash \o PlanWord \o Dash \o sanitizePlanName(planDescription)
             \o TxtSuffix
    ELSE IF planFile # <<>>
      THEN ProgressWord \o Dash \o TrimSuffix(Base(planFile), MdSuffix) \o TxtSuffix
    ELSE CASE mode = "codex-only" -> ProgressWord \o Dash \o CodexWord \o TxtSuffix
           [] mode = "review" -> ProgressWord \o Dash \o ReviewWord \o TxtSuffix
           [] mode = "plan" -> ProgressWord \o Dash \o PlanWord \o TxtSuffix
           [] OTHER -> ProgressWord \o TxtSuffix

\* progressFilename of pkg/tui (logger.go:282-310)
progressFilename(planFile, planDescription, mode) ==
    IF mode = "plan" /\ planDescription # <<>>
      THEN ProgressWord \o Dash \o PlanWord \o Dash \o sanitizePlanName(planDescription)
             \o TxtSuffix
    ELSE IF planFile # <<>>
      THEN LET stem == TrimSuffix(Base(planFile), MdSuffix)
           IN  CASE mode = "codex-only" ->
                      ProgressWord \o Dash \o stem \o Dash \o CodexWord \o TxtSuffix
                 [] mode = "review" ->
                      ProgressWord \o Dash \o stem \o Dash \o ReviewWord \o TxtSuffix
                 [] OTHER -> ProgressWord \o Dash \o stem \o TxtSuffix
    ELSE CASE mode = "codex-only" -> ProgressWord \o Dash \o CodexWord \o TxtSuffix
           [] mode = "review" -> ProgressWord \o Dash \o ReviewWord \o TxtSuffix
           [] mode = "plan" -> ProgressWord \o Dash \o PlanWord \o TxtSuffix
           [] OTHER -> ProgressWord \o TxtSuffix

\* progressFilename of pkg/progress (progress.go:266-297)
progressFilenameOfProgress(planFile, planDescription, mode) ==
    IF mode = "plan" /\ planDescription # <<>>
      THEN ProgressWord \o Dash \o PlanWord \o Dash
             \o sanitizePlanNameOfProgress(planDescription) \o TxtSuffix
    ELSE IF planFile # <<>>
      THEN LET stem == TrimSuffix(Base(planFile), MdSuffix)
           IN  CASE mode = "codex-only" ->
                      ProgressWord \o Dash \o stem \o Dash \o CodexWord \o TxtSuffix
                 [] mode = "review" ->
                      ProgressWord \o Dash \o stem \o Dash \o ReviewWord \o TxtSuffix
                 [] OTHER -> ProgressWord \o Dash \o stem \o TxtSuffix
    ELSE CASE mode = "codex-only" -> ProgressWord \o Dash \o CodexWord \o TxtSuffix
           [] mode = "review" -> ProgressWord \o Dash \o ReviewWord \o TxtSuffix
           [] mode = "plan" -> ProgressWord \o Dash \o PlanWord \o TxtSuffix
           [] OTHER -> ProgressWord \o TxtSuffix

\* the plan files and descriptions progressFilename is called with: stems made of
\* a letter and of the words of the file names, in a directory or not, with the
\* .md suffix or without
StemWords == {<<"a">>, <<"b">>, PlanWord, ReviewWord, CodexWord}
Stems == StemWords \cup {w \o Dash \o v : w, v \in StemWords}
PlanPaths ==
    {<<>>} \cup {dir \o stem \o ext : dir \in {<<>>, <<"d", "/">>}, stem \in Stems,
                                      ext \in {<<>>, MdSuffix}}
FileDescriptions == {<<>>, <<"a">>, <<"A", " ", "b">>, <<"!">>, ReviewWord}

\* ------------------------------- teaLogger.PrintAligned (logger.go:161-189)
\* PrintAligned calls on the one logger
MaxAligned == 2
\* the longest text
MaxTextLen == 4
NL == "\n"
\* the characters of a text: a letter, the dash and the space of a list item, and
\* the newline
TextChars == {"a", "-", " ", NL}
Texts == UNION {[1..n -> TextChars] : n \in 0..MaxTextLen}

\* strings.Split(text, "\n")
RECURSIVE SplitLines(_)
SplitLines(text) ==
    IF \A i \in 1..Len(text) : text[i] # NL THEN <<text>>
    ELSE LET i == CHOOSE k \in 1..Len(text) :
                      text[k] = NL /\ \A j \in 1..(k - 1) : text[j] # NL
         IN  <<SubSeq(text, 1, i - 1)>> \o SplitLines(SubSeq(text, i + 1, Len(text)))

\* strings.HasPrefix
HasPrefix(s, prefix) == Len(s) >= Len(prefix) /\ SubSeq(s, 1, Len(prefix)) = prefix

\* isListItem (logger.go:264-278): "- ", "* ", or digits, a dot and a space
isListItem(line) ==
    \/ HasPrefix(line, <<"-", " ">>)
    \/ HasPrefix(line, <<"*", " ">>)
    \/ \E i \in 2..(Len(line) - 1) :
           /\ \A k \in 1..(i - 1) : line[k] \in Digits
           /\ line[i] = "."
           /\ line[i + 1] = " "

\* formatListItem (logger.go:253-261)
formatListItem(line) ==
    IF TrimLeft(line, {" ", "\t"}) = line /\ isListItem(line) THEN <<" ", " ">> \o line
    ELSE line

\* a PrintAligned that writes the empty lines as well
PrintAlignedEveryLine(text) ==
    IF text = <<>> THEN <<>>
    ELSE LET trimmed == TrimRight(text, {NL})
         IN  IF trimmed = <<>> THEN <<>>
             ELSE LET lines == SplitLines(trimmed)
                  IN  [i \in 1..Len(lines) |-> formatListItem(lines[i])]

\* the display lines PrintAligned writes, one after the other (logger.go:162-183)
PrintAligned(text) ==
    IF text = <<>> THEN <<>>
    ELSE LET trimmed == TrimRight(text, {NL})
         IN  IF trimmed = <<>> THEN <<>>
             ELSE LET lines == SelectSeq(SplitLines(trimmed), LAMBDA line : line # <<>>)
                  IN  [i \in 1..Len(lines) |-> formatListItem(lines[i])]

\* a timestamped line of the progress file, and the OutputMsg of the lines joined
AlignedLine(displayLine) ==
    [kind |-> "PrintAligned", from |-> "", seq |-> 0, text |-> displayLine]
AlignedMsg(outputLines) == [type |-> "Output", lines |-> outputLines]

\* writeFile for each of the lines in turn
RECURSIVE writeLines(_, _, _)
writeLines(f, g, lines) ==
    IF lines = <<>> THEN [file |-> f, logger |-> g]
    ELSE LET w == writeFile(f, g, AlignedLine(Head(lines)))
         IN  writeLines(w.file, w.logger, Tail(lines))

\* teaLogger.PrintAligned (logger.go:161-189) on the open logger: every line is
\* written, then the one message is sent if there is a line
CallPrintAligned(l) ==
    /\ lg[l].st = "open"
    /\ calc.fn \in {"none", "PrintAligned"}
    /\ calc.calls < MaxAligned
    /\ \E text \in Texts :
         LET outputLines == PrintAligned(text)
             w == writeLines(pfile, lg[l], outputLines)
         IN  /\ pfile' = w.file
             /\ lg' = [lg EXCEPT ![l] = w.logger]
             /\ delivered' = IF Len(outputLines) > 0
                               THEN Append(delivered, AlignedMsg(outputLines))
                               ELSE delivered
             /\ calc' = [fn |-> "PrintAligned", text |-> text, calls |-> calc.calls + 1,
                         nLines |-> Len(pfile.content), nMsgs |-> Len(delivered)]
    /\ UNCHANGED <<logPc, view, bcast>>
    /\ UNCHANGED <<ssVars, stopPc, stopsCalled, stopsDone, afterStop, beforeStop, hSent,
                   uiVars, chans, ctxDone, askVars, progVars, repo, gitLog>>

NoCalc == [fn |-> "none"]
CalcIdle == calc = NoCalc
PartsIdle == ViewIdle /\ BroadcastIdle /\ CalcIdle

\* ------------------------------- AskQuestion against the running UI
\* AskQuestion calls the asking goroutine makes
MaxAsks == 2
\* the option lists it passes: AskYesNo's, a question of the plan phase, and none
OptionLists == {<<"Yes", "No">>, <<"A", "B", "C">>, <<>>}
Ctxs == 0..MaxAsks

\* no UI and no asking goroutine: the state of the specifications without them
UIIdle ==
    /\ model = NewModel("Executing")
    /\ loopPc = "exited"
    /\ loopMsg = NoMsg
    /\ loopErr = "nil"
    /\ cmdMsgs = {}
    /\ sendNoop = FALSE
    /\ chans = [c \in ChanIds |-> NewChan]
    /\ ctxDone = [c \in Ctxs |-> FALSE]
AskIdle ==
    /\ askPc = "idle"
    /\ ask = NoAsk
    /\ askResult = NoResult
    /\ nAsked = 0

SenderIdle ==
    /\ stopped = FALSE
    /\ muReaders = {}
    /\ muWaiting = {}
    /\ sendPc = [t \in SendThreads |-> "idle"]
    /\ sendMsg = [t \in SendThreads |-> NoMsg]
HarnessIdle ==
    /\ delivered = <<>>
    /\ hSent = [t \in SendThreads |-> 0]
    /\ stopPc = "idle"
    /\ stopsCalled = 0
    /\ stopsDone = 0
    /\ afterStop = {}
    /\ beforeStop = {}

\* the asking goroutine calls AskQuestion on its collector, with the root context
\* or with a context of the call's own
AAsk ==
    /\ nAsked < MaxAsks
    /\ \E opts \in OptionLists, ctx \in {RootCtx, nAsked + 1} :
         AskCall("ans1", ctx, opts)
    /\ UNCHANGED <<envVars, ssVars, uiVars, ctxDone, harnessVars, progVars>>

\* the caller takes the result
AAskReturn ==
    /\ askPc = "done"
    /\ askPc' = "idle"
    /\ UNCHANGED <<envVars, ask, askResult, nAsked, ssVars, uiVars, chans, ctxDone, harnessVars, progVars>>

\* a context is cancelled; cancelling the root cancels every context derived from it
Cancel(c) ==
    /\ ~ctxDone[c]
    /\ ctxDone' = IF c = RootCtx THEN [x \in Ctxs |-> TRUE]
                                 ELSE [ctxDone EXCEPT ![c] = TRUE]

AStepPublish == AskPublish /\ UNCHANGED <<envVars, uiVars, chans, ctxDone, harnessVars, progVars>>
AStepSend(t) == ProgramSend(t) /\ UNCHANGED <<envVars, askVars, ctxDone, harnessVars, progVars>>
AStepSendNoop(t) ==
    ProgramSendNoop(t) /\ UNCHANGED <<envVars, askVars, ctxDone, harnessVars, progVars>>
AStepPublished == AskPublished /\ UNCHANGED <<envVars, uiVars, chans, ctxDone, harnessVars, progVars>>
AStepSelectCtx == AskSelectCtx /\ UNCHANGED <<envVars, ssVars, uiVars, ctxDone, harnessVars, progVars>>
AStepSelectRecv == AskSelectRecv /\ UNCHANGED <<envVars, ssVars, uiVars, ctxDone, harnessVars, progVars>>
AStepKey(k) == LoopKey(k) /\ UNCHANGED <<envVars, ssVars, askVars, ctxDone, harnessVars, progVars>>
AStepCmd(msg) == LoopCmd(msg) /\ UNCHANGED <<envVars, ssVars, askVars, ctxDone, harnessVars, progVars>>
AStepKilled == LoopKilled /\ UNCHANGED <<envVars, ssVars, askVars, ctxDone, harnessVars, progVars>>
AStepResume == LoopResume /\ UNCHANGED <<envVars, ssVars, askVars, ctxDone, harnessVars, progVars>>
AStepCancel(c) == Cancel(c) /\ UNCHANGED <<envVars, ssVars, uiVars, chans, askVars, harnessVars, progVars>>

AskInit ==
    /\ SenderIdle
    /\ HarnessIdle
    /\ model = NewModel("Executing")
    /\ loopPc = "running"
    /\ loopMsg = NoMsg
    /\ loopErr = "nil"
    /\ cmdMsgs = {}
    /\ sendNoop \in BOOLEAN
    /\ chans = [c \in ChanIds |-> NewChan]
    /\ ctxDone = [c \in Ctxs |-> FALSE]
    /\ AskIdle
    /\ ProgIdle
    /\ LoggerIdle
    /\ PartsIdle
    /\ GitIdle

AskNext ==
    \/ AAsk
    \/ AStepPublish
    \/ AStepSend("bl")
    \/ AStepSendNoop("bl")
    \/ AStepPublished
    \/ AStepSelectCtx
    \/ AStepSelectRecv
    \/ AAskReturn
    \/ \E k \in Keys : AStepKey(k)
    \/ \E msg \in cmdMsgs : AStepCmd(msg)
    \/ AStepKilled
    \/ AStepResume
    \/ \E c \in Ctxs : AStepCancel(c)

\* the asking goroutine is scheduled: a step of its that stays possible is taken
AskFairness ==
    /\ WF_vars(AStepPublish)
    /\ WF_vars(AStepPublished)
    /\ WF_vars(AStepSelectCtx)
    /\ WF_vars(AStepSelectRecv)
    /\ WF_vars(AAskReturn)

AskSpec == AskInit /\ [][AskNext]_vars /\ AskFairness

\* ------------------------------------- the logger on its own (LoggerSpec)
\* two goroutines print on the first logger while a second logger is opened on the
\* same progress path; the sender is the recording sender of the logger tests
LoggerInit ==
    /\ SenderIdle
    /\ HarnessIdle
    /\ UIIdle
    /\ AskIdle
    /\ ProgIdle
    /\ LoggerIdle
    /\ PartsIdle
    /\ GitIdle

LoggerNext ==
    \/ \E l \in LoggerIds : NewLogger(l)
    \/ \E t \in SendThreads : PrintWrite(t, "first")
    \/ \E t \in SendThreads : PrintSend(t)
    \/ \E l \in LoggerIds : LoggerClose(l)

LoggerSpec == LoggerInit /\ [][LoggerNext]_vars

\* ------------------------------------ the source-control helpers on their own
\* calls of the helpers on one repository (the tests call each once or twice)
MaxGitCalls == 2

\* the plan files of the helper tests (main_test.go:286-308)
PlanFiles == {"2024-01-15-add-cache.md", "2024.md", "main.md", PlanName}

\* the repositories the helpers are called on
GitRepos ==
    { Repo(b, bs, pd, od, TRUE, ig) :
        b \in {"main", "master", "feature"}, bs \in {{}, {"add-cache", "2024"}},
        pd \in BOOLEAN, od \in BOOLEAN, ig \in BOOLEAN }

\* the record of one call: the helper, its plan file, the calls that failed, the
\* repository before and after, the error returned
GitCall(fn, planFile, F, res) ==
    [fn |-> fn, planFile |-> planFile, F |-> F, before |-> repo, after |-> res.repo,
     err |-> res.err]

\* what a call of a helper leaves alone
GitFrame ==
    UNCHANGED <<pfile, lg, logPc, partVars, ssVars, harnessVars, uiVars, chans, ctxDone,
                askVars, progVars>>

\* a helper was called and has come back
GitDo(fn, planFile, F, res) ==
    /\ repo' = res.repo
    /\ gitLog' = Append(gitLog, GitCall(fn, planFile, F, res))

\* the failures of a helper that calls only calls
FailSetsOf(calls) == {F \in FailSets : F \subseteq calls}

\* createBranchIfNeeded(gitOps, planFile, sender) as TestCreateBranchIfNeeded calls it
\* (main_test.go:310-482)
CallCreateBranchIfNeeded ==
    /\ Len(gitLog) < MaxGitCalls
    /\ \E planFile \in PlanFiles,
          F \in FailSetsOf({"CurrentBranch", "HasChangesOtherThan", "FileHasChanges",
                            "CheckoutBranch", "CreateBranch", "Add", "Commit"}) :
         GitDo("createBranchIfNeeded", planFile, F, createBranchIfNeeded(repo, planFile, F))
    /\ GitFrame

\* ensureGitignore(gitOps, sender) as TestEnsureGitignore calls it
\* (main_test.go:649-734)
CallEnsureGitignore ==
    /\ Len(gitLog) < MaxGitCalls
    /\ \E F \in FailSetsOf({"IsIgnored", "OpenFile", "WriteString"}) :
         GitDo("ensureGitignore", "", F, ensureGitignore(repo, F))
    /\ GitFrame

GitInit ==
    /\ SenderIdle
    /\ HarnessIdle
    /\ UIIdle
    /\ AskIdle
    /\ ProgIdle
    /\ LoggerIdle
    /\ PartsIdle
    /\ repo \in GitRepos
    /\ gitLog = <<>>

GitNext ==
    \/ CallCreateBranchIfNeeded
    \/ CallEnsureGitignore

GitSpec == GitInit /\ [][GitNext]_vars

\* --------------------------------- the output view on its own (ViewSpec)
\* an OutputMsg reaches Update in the Executing state: appendOutput; the lines
\* appended so far are kept beside the buffer
ViewAppend ==
    /\ Len(view.appended) < MaxAppends
    /\ \E line \in OutputLines :
         view' = [appendOutput(view, line) EXCEPT !.appended = Append(@, line)]
    /\ UNCHANGED <<pfile, lg, logPc, repo, gitLog, bcast, calc>>
    /\ UNCHANGED <<ssVars, harnessVars, uiVars, chans, ctxDone, askVars, progVars>>

\* a scroll key reaches Update in the Executing state
ViewKey ==
    /\ \E k \in ScrollKeys : view' = updateViewportScroll(view, k)
    /\ UNCHANGED <<pfile, lg, logPc, repo, gitLog, bcast, calc>>
    /\ UNCHANGED <<ssVars, harnessVars, uiVars, chans, ctxDone, askVars, progVars>>

ViewInit ==
    /\ SenderIdle
    /\ HarnessIdle
    /\ UIIdle
    /\ AskIdle
    /\ ProgIdle
    /\ LoggerIdle
    /\ GitIdle
    /\ BroadcastIdle
    /\ CalcIdle
    /\ \E h \in 1..MaxHeight : view = NewView(h)

ViewNext ==
    \/ ViewAppend
    \/ ViewKey

ViewSpec == ViewInit /\ [][ViewNext]_vars

\* ------------------------- the broadcast logger on its own (BroadcastSpec)
BroadcastFrame ==
    /\ UNCHANGED <<pfile, lg, logPc, repo, gitLog, view, calc>>
    /\ UNCHANGED <<ssVars, harnessVars, uiVars, chans, ctxDone, askVars, progVars>>

\* the orchestrator sets a phase
BSetPhase ==
    /\ Len(bcast.calls) < MaxLogCalls
    /\ \E p \in Phases, named \in BOOLEAN :
         bcast' = [SetPhase(bcast, p, named) EXCEPT !.calls = Append(@, SetPhaseCall(p))]
    /\ BroadcastFrame

\* the orchestrator prints a section header
BPrintSection ==
    /\ Len(bcast.calls) < MaxLogCalls
    /\ \E sec \in Sections :
         bcast' = [PrintSection(bcast, sec) EXCEPT
                     !.calls = Append(@, PrintSectionCall(sec))]
    /\ BroadcastFrame

\* the orchestrator prints a line
BPrintLine ==
    /\ Len(bcast.calls) < MaxLogCalls
    /\ bcast' = [PrintLine(bcast) EXCEPT !.calls = Append(@, PrintCall)]
    /\ BroadcastFrame

BroadcastInit ==
    /\ SenderIdle
    /\ HarnessIdle
    /\ UIIdle
    /\ AskIdle
    /\ ProgIdle
    /\ LoggerIdle
    /\ GitIdle
    /\ ViewIdle
    /\ CalcIdle
    /\ bcast = NewBroadcastLogger

BroadcastNext ==
    \/ BSetPhase
    \/ BPrintSection
    \/ BPrintLine

BroadcastSpec == BroadcastInit /\ [][BroadcastNext]_vars

\* ------------------------------- the mode helpers on their own (ModeSpec)
ModeFrame ==
    /\ UNCHANGED <<pfile, lg, logPc, repo, gitLog, view, bcast>>
    /\ UNCHANGED <<ssVars, harnessVars, uiVars, chans, ctxDone, askVars, progVars>>

\* determineMode is called on the options
CallDetermineMode ==
    /\ calc.fn = "none"
    /\ calc' = [calc EXCEPT !.fn = "determineMode", !.out = determineMode(calc.o)]
    /\ ModeFrame

\* isWatchOnlyMode is called on the options and the configured directories
CallIsWatchOnlyMode ==
    /\ calc.fn = "none"
    /\ calc' = [calc EXCEPT !.fn = "isWatchOnlyMode",
                            !.out = isWatchOnlyMode(calc.o, calc.configWatchDirs)]
    /\ ModeFrame

\* run() is called on the options, inside a repository root or outside of one
CallRun ==
    /\ calc.fn = "none"
    /\ calc' = [calc EXCEPT !.fn = "run",
                            !.out = runStart(calc.o, calc.configWatchDirs,
                                             calc.inRepo, calc.depOk)]
    /\ ModeFrame

ModeInit ==
    /\ SenderIdle
    /\ HarnessIdle
    /\ UIIdle
    /\ AskIdle
    /\ ProgIdle
    /\ LoggerIdle
    /\ GitIdle
    /\ ViewIdle
    /\ BroadcastIdle
    /\ \E o \in FlagSets, dirs \in ConfigWatchDirs, inRepo \in BOOLEAN, depOk \in BOOLEAN :
         calc = [fn |-> "none", o |-> o, configWatchDirs |-> dirs, inRepo |-> inRepo,
                 depOk |-> depOk, out |-> "none"]

ModeNext ==
    \/ CallDetermineMode
    \/ CallIsWatchOnlyMode
    \/ CallRun

ModeSpec == ModeInit /\ [][ModeNext]_vars

\* ----------------------- extractBranchName on its own (BranchNameSpec)
\* extractBranchName is called on the path
CallExtractBranchName ==
    /\ calc.fn = "none"
    /\ calc' = [calc EXCEPT !.fn = "extractBranchName",
                            !.out = extractBranchNameOfPath(calc.path)]
    /\ ModeFrame

BranchNameInit ==
    /\ SenderIdle
    /\ HarnessIdle
    /\ UIIdle
    /\ AskIdle
    /\ ProgIdle
    /\ LoggerIdle
    /\ GitIdle
    /\ ViewIdle
    /\ BroadcastIdle
    /\ \E path \in Paths : calc = [fn |-> "none", path |-> path, out |-> <<>>]

BranchNameNext == CallExtractBranchName

BranchNameSpec == BranchNameInit /\ [][BranchNameNext]_vars

\* ------------- progressFilename and sanitizePlanName on their own (FilenameSpec)
\* sanitizePlanName of pkg/tui is called on the description
CallSanitizePlanName ==
    /\ calc.fn = "none"
    /\ calc' = [calc EXCEPT !.fn = "tui.sanitizePlanName",
                            !.out = sanitizePlanName(calc.desc)]
    /\ ModeFrame

\* sanitizePlanName of pkg/progress is called on the description
CallSanitizePlanNameOfProgress ==
    /\ calc.fn = "none"
    /\ calc' = [calc EXCEPT !.fn = "progress.sanitizePlanName",
                            !.out = sanitizePlanNameOfProgress(calc.desc)]
    /\ ModeFrame

\* progressFilename of pkg/tui is called, as NewLogger calls it
CallProgressFilename ==
    /\ calc.fn = "none"
    /\ calc' = [calc EXCEPT !.fn = "tui.progressFilename",
                            !.out = progressFilename(calc.planFile, calc.desc, calc.mode)]
    /\ ModeFrame

\* progressFilename of pkg/progress is called
CallProgressFilenameOfProgress ==
    /\ calc.fn = "none"
    /\ calc' = [calc EXCEPT !.fn = "progress.progressFilename",
                            !.out = progressFilenameOfProgress(calc.planFile, calc.desc,
                                                               calc.mode)]
    /\ ModeFrame

\* the inputs: every short description in plan mode, and every plan file with a
\* few descriptions in every mode
FilenameInputs ==
    {[planFile |-> <<>>, desc |-> desc, mode |-> "plan"] : desc \in Descriptions}
    \cup [planFile : PlanPaths, desc : FileDescriptions, mode : Modes]

FilenameInit ==
    /\ SenderIdle
    /\ HarnessIdle
    /\ UIIdle
    /\ AskIdle
    /\ ProgIdle
    /\ LoggerIdle
    /\ GitIdle
    /\ ViewIdle
    /\ BroadcastIdle
    /\ \E in \in FilenameInputs :
         calc = [fn |-> "none", planFile |-> in.planFile, desc |-> in.desc,
                 mode |-> in.mode, out |-> <<>>]

FilenameNext ==
    \/ CallSanitizePlanName
    \/ CallSanitizePlanNameOfProgress
    \/ CallProgressFilename
    \/ CallProgressFilenameOfProgress

FilenameSpec == FilenameInit /\ [][FilenameNext]_vars

\* ------------------------------- PrintAligned on one logger (AlignedSpec)
\* NewLogger in the specification of PrintAligned: the record of the calls is left
\* alone
AlignedNewLogger ==
    /\ lg["first"].st = "none"
    /\ LET w == writeFile([Create(pfile) EXCEPT !.lock = "first"],
                          [NoLogger EXCEPT !.st = "open"], HeaderLine)
       IN  pfile' = w.file /\ lg' = [lg EXCEPT !["first"] = w.logger]
    /\ UNCHANGED <<logPc, delivered, partVars>>
    /\ UNCHANGED <<ssVars, stopPc, stopsCalled, stopsDone, afterStop, beforeStop, hSent,
                   uiVars, chans, ctxDone, askVars, progVars, repo, gitLog>>

AlignedInit ==
    /\ SenderIdle
    /\ HarnessIdle
    /\ UIIdle
    /\ AskIdle
    /\ ProgIdle
    /\ LoggerIdle
    /\ GitIdle
    /\ ViewIdle
    /\ BroadcastIdle
    /\ calc = [fn |-> "none", text |-> <<>>, calls |-> 0, nLines |-> 0, nMsgs |-> 0]

AlignedNext ==
    \/ AlignedNewLogger
    \/ CallPrintAligned("first")

AlignedSpec == AlignedInit /\ [][AlignedNext]_vars

SenderInit ==
    /\ SenderIdle
    /\ HarnessIdle
    /\ UIIdle
    /\ AskIdle
    /\ ProgIdle
    /\ LoggerIdle
    /\ PartsIdle
    /\ GitIdle

SenderNext ==
    \/ \E t \in SendThreads : HSend(t)
    \/ \E t \in SendThreads : MockSend(t)
    \/ \E t \in SendThreads : HSendReturn(t)
    \/ HStopCall
    \/ HStopFlip

\* every goroutine of the test is scheduled
SenderFairness ==
    /\ \A t \in SendThreads : WF_vars(MockSend(t))
    /\ \A t \in SendThreads : WF_vars(HSendReturn(t))
    /\ WF_vars(HStopFlip)

SenderSpec == SenderInit /\ [][SenderNext]_vars /\ SenderFairness

\* ------------------------------------------------------------ the whole run
\* run() at go runBusinessLogic (main.go:190): the model of the initial state is in
\* the program, its first command is on its way, the goroutine has not moved
Init ==
    /\ SenderIdle
    /\ HarnessIdle
    /\ AskIdle
    /\ opt \in Configs
    /\ sendNoop \in BOOLEAN
    /\ model = NewModel(determineInitialTUIState(opt, determineMode(opt)))
    /\ \E list \in PlanDirs : cmdMsgs = ModelInit(model, list)
    /\ loopPc = "running"
    /\ loopMsg = NoMsg
    /\ loopErr = "nil"
    /\ chans = [c \in ChanIds |-> NewChan]
    /\ ctxDone = [c \in Ctxs |-> FALSE]
    /\ mainPc = "run"
    /\ runResult = "none"
    /\ bl = NewBL
    /\ innerErr = "none"
    /\ doneSends = 0
    /\ logs = [l \in {"plan", "exec"} |-> "none"]
    /\ runner = NoRunner
    /\ phasesRun = <<>>
    /\ auxPc = "none"
    /\ drainPc = "none"
    /\ LoggerIdle
    /\ PartsIdle
    /\ repo \in RunRepos(opt)
    /\ gitLog = <<>>

\* SIGINT or SIGTERM cancels the context of main() (main.go:104)
Interrupt == Alive /\ AStepCancel(RootCtx)

\* the steps of SafeSender.Send and of AskQuestion on the goroutines of the run
RunSend(t) == Alive /\ AStepSend(t)
RunSendNoop(t) == Alive /\ AStepSendNoop(t)
RunAskPublish == Alive /\ AStepPublish
RunAskPublished == Alive /\ AStepPublished
RunAskSelectCtx == Alive /\ AStepSelectCtx
RunAskSelectRecv == Alive /\ AStepSelectRecv

Next ==
    \/ \E k \in Keys : AStepKey(k)
    \/ \E msg \in cmdMsgs : AStepCmd(msg)
    \/ AStepKilled
    \/ Interrupt
    \/ \E t \in SendThreads : RunSend(t)
    \/ \E t \in SendThreads : RunSendNoop(t)
    \/ RunAskPublish
    \/ RunAskPublished
    \/ RunAskSelectCtx
    \/ RunAskSelectRecv
    \/ BLSendCall
    \/ BLSendReturn
    \/ EnsureCommitsCheck
    \/ EnsureCommitsAsk
    \/ EnsureCommitsAnswered
    \/ Dispatch
    \/ WaitPlanCtx
    \/ WaitPlanRecv
    \/ DrainRecv
    \/ SetupGit
    \/ ExecNewLogger
    \/ ExecWeb
    \/ ExecRun
    \/ RunnerNext
    \/ RunnerExec
    \/ RunnerAsk
    \/ RunnerAnswered
    \/ ExecRan
    \/ ExecAfter
    \/ ExecServeClose
    \/ ExecServeWait
    \/ ExecDefer
    \/ PlanModeStart
    \/ PlanNewLogger
    \/ PlanRun
    \/ PlanRan
    \/ PlanNoFile
    \/ PlanContinueAsk
    \/ PlanContinueAnswered
    \/ PlanBranch
    \/ PlanExec
    \/ PlanDefer
    \/ InnerReturn
    \/ AuxSendCall
    \/ AuxSendReturn
    \/ RunProgramEnded
    \/ RunReturn

Spec == Init /\ [][Next]_vars

\* ------------------------------------------------------ SafeSender: claims
\* C4: a Send that runs concurrently with Stop forwards its message completely or
\* drops it entirely: while a Send is between the stopped check and its return with
\* the message on its way, the sender is not stopped (Stop waits for every in-flight
\* Send before it flips the flag); a dropped message never reaches the wrapped sender;
\* a forwarded one reaches it once, and is there when the Send is about to return.
C4_SendForwardsOrDrops ==
    /\ \A t \in SendThreads :
         /\ sendPc[t] \in {"inner", "unlock"} => ~stopped /\ t \in muReaders
         /\ sendPc[t] = "unlock" => Count(delivered, sendMsg[t]) = 1
         /\ sendPc[t] \in {"inner", "dropped"} => Count(delivered, sendMsg[t]) = 0
    /\ \A i \in 1..Len(delivered) : Count(delivered, delivered[i]) = 1

\* Stop waits in mu.Lock() while one Send is inside the wrapped sender and the
\* other goroutine has finished its Sends
C4_Witness ==
    /\ stopPc = "lock"
    /\ \E t \in SendThreads : sendPc[t] = "inner"
    /\ \E t \in SendThreads : hSent[t] = MaxSends /\ sendPc[t] = "idle"

C5_State ==
    /\ stopsDone > 0 => stopped
    /\ \A m \in beforeStop : Count(delivered, m) = 1
    /\ \A m \in afterStop : Count(delivered, m) = 0

\* C5: stopped is absorbing: once set it stays set, and it is set when a Stop has
\* returned; a message whose Send returned before the first Stop was called reached
\* the wrapped sender exactly once; a message whose Send was called after a Stop had
\* returned never reaches it; a Stop called again changes neither the flag nor what
\* was delivered, and returns.
C5_StoppedAbsorbing ==
    /\ []C5_State
    /\ [][stopped => stopped']_vars
    /\ [][(stopped /\ HStopFlip) => (stopped' /\ delivered' = delivered)]_vars
    /\ (stopPc = "lock") ~> (stopPc = "idle")

\* two Stops have returned, with messages sent before the first and after it
C5_Witness ==
    /\ stopsDone = MaxStops
    /\ stopsDone >= 2
    /\ beforeStop # {}
    /\ afterStop # {}
    /\ \A t \in SendThreads : sendPc[t] = "idle"

\* ------------------------------------------------------ AskQuestion: claims
\* C6: AskQuestion returns only the answer the user chose for that same question:
\* a call that returns without an error returns one of the options passed to it, and
\* the answer is the one submitted for the question this call published, never the
\* answer submitted for the question of an earlier call.
C6_AnswerOfThisQuestion ==
    (askPc = "done" /\ askResult.err = "nil") =>
        /\ askResult.answer \in Range(ask.opts)
        /\ askResult.question = ask.qid

\* the call in the select, with nothing to receive on its answer channel
AskWaiting == askPc = "select" /\ ~CanRecv(chans, ask.ch)

\* C7: an AskQuestion call that waits for an answer returns a cancellation error once
\* its context is done: a waiting call leaves the select only with the context done
\* and with the context error, and a call in the select whose context is done
\* returns, whatever the UI does or does not do.
C7_CancelledAskReturns ==
    /\ [][(AskWaiting /\ askPc' = "done") =>
             (ctxDone[ask.ctx] /\ askResult'.err = "ctx" /\ UNCHANGED <<uiVars, chans>>)]_vars
    /\ (askPc = "select" /\ ctxDone[ask.ctx]) ~> (askPc = "done")

\* the call returned the context error while the UI still shows its question,
\* unanswered
C7_Witness ==
    /\ askPc = "done"
    /\ askResult.err = "ctx"
    /\ model.state = "Question"
    /\ model.question = ask.qid
    /\ model.questionCh = ask.ch
    /\ chans[ask.ch] = NewChan

\* the UI shows the question of the call that waits in the select, and the answer
\* channel of the call is open and empty
AskShown ==
    /\ AskWaiting
    /\ loopPc = "running"
    /\ model.state = "Question"
    /\ model.question = ask.qid
    /\ model.questionCh = ask.ch

\* C8: Ctrl-C in the Question state closes the answer channel and quits (the quit
\* command is returned, the model lets go of the channel); a call that then finds
\* its channel closed and empty returns "question canceled" unless its context is
\* done as well (then the select may take either case); it does not hang.
C8_CtrlCCancelsQuestion ==
    /\ [][(AskShown /\ AStepKey("ctrl+c")) =>
             /\ chans'[ask.ch].closed
             /\ QuitMsg \in cmdMsgs'
             /\ model'.questionCh = NilCh
             /\ loopPc' = "running"]_vars
    /\ [][(askPc = "select" /\ askPc' = "done"
            /\ chans[ask.ch].closed /\ Len(chans[ask.ch].buf) = 0) =>
             /\ askResult'.err \in {"question canceled", "ctx"}
             /\ askResult'.err = "ctx" => ctxDone[ask.ctx]]_vars
    /\ (askPc = "select" /\ chans[ask.ch].closed) ~> (askPc = "done")

\* the call returned "question canceled" with its context alive, and the event
\* loop has ended on the quit command
C8_Witness ==
    /\ askPc = "done"
    /\ askResult.err = "question canceled"
    /\ ~ctxDone[ask.ctx]
    /\ chans[ask.ch].closed
    /\ loopPc = "exited"
    /\ loopErr = "nil"

\* ---------------------------------------------------------------------------
\* Claims about the whole run (Spec)
\* ---------------------------------------------------------------------------

Loggers == {"plan", "exec"}

\* C1: by the time run() returns, every progress logger that was created has had
\* its footer written (Close has run), whatever the outcome of the run
C1_FooterWrittenAtExit ==
    mainPc = "exited" => \A l \in Loggers : logs[l] # "open"

\* inner errors that are failures of the execution
RealError(err) == err \notin {"none", "nil", "errPlanModeCompleted"}

\* C2: when run() has returned, a goroutine that ended with a real error made the
\* result non-nil, and a nil result means the execution ended successfully
C2_ExitStatusReflectsOutcome ==
    mainPc = "exited" =>
        /\ RealError(innerErr) => runResult # "nil"
        /\ runResult = "nil" => innerErr \in {"nil", "errPlanModeCompleted"}

\* a Send call in progress on t can come to its end
SendCanFinish(t) ==
    \/ sendPc[t] \in {"unlock", "dropped"}
    \/ sendPc[t] = "inner" /\ (loopPc # "exited" \/ sendNoop)

\* C3: once the event loop has exited, no Send call stays blocked and Stop() comes
\* back, also when a Send was in flight holding the read lock
C3_NoHangAfterLoopExit ==
    (loopPc = "exited" /\ Alive) =>
        /\ \A t \in SendThreads : sendPc[t] # "idle" => SendCanFinish(t)
        /\ mainPc = "stop" => \A t \in muReaders : SendCanFinish(t)

C10_PhasesOfMode ==
    (bl.pc = "ex_ran" /\ bl.err = "nil") =>
        CASE bl.mode = "full" ->
               phasesRun = IF opt.CodexEnabled
                             THEN <<"task", "review", "codex", "review">>
                             ELSE <<"task", "review", "review">>
          [] bl.mode = "review" -> phasesRun = <<"review">>
          [] bl.mode = "codex-only" -> phasesRun = <<"codex", "review">>
          [] OTHER -> FALSE

\* a codex-only run configured with CodexEnabled false has succeeded
C10_Witness ==
    /\ bl.pc = "ex_ran" /\ bl.err = "nil"
    /\ bl.mode = "codex-only"
    /\ ~opt.CodexEnabled
    /\ phasesRun = <<"codex", "review">>


\* the Runner is in its phase loop: the section header of iteration runner.iter is
\* being emitted, or the subprocess of that iteration runs
InIteration == bl.pc \in {"r_section", "r_exec"}

\* C11: with MaxIterations = N a phase runs at most the iterations 1 .. N (counted
\* from 0 here): the (N+1)th is never launched, an exit without a terminal signal
\* relaunches only below the cap, and the phase fails with "iteration cap exhausted"
\* only after the Nth iteration has run
C11_IterationCapInclusive ==
    /\ [](InIteration => runner.iter + 1 <= MaxIterations)
    /\ [][(bl.pc = "r_exec" /\ bl'.pc = "r_section")
            => (runner'.iter = runner.iter + 1 /\ runner.iter + 1 < MaxIterations)]_vars
    /\ [][(bl.pc = "r_exec" /\ bl'.pc # "r_exec" /\ bl'.err = "iteration cap exhausted")
            => runner.iter + 1 = MaxIterations]_vars

\* a Review phase has run MaxIterations iterations without its signal and the run
\* has failed on the cap
C11_Witness ==
    /\ bl.pc = "ex_ran"
    /\ bl.err = "iteration cap exhausted"
    /\ runner.iter + 1 = MaxIterations
    /\ Head(runner.queue) = "review"

FilePos(line) ==
    IF \E p \in 1..Len(pfile.content) : pfile.content[p] = line
      THEN CHOOSE p \in 1..Len(pfile.content) : pfile.content[p] = line
      ELSE 0

\* the lines the goroutines have printed so far
Printed == {Line(k, t, n) : k \in PrintKinds, t \in SendThreads, n \in 1..MaxPrints}

\* C13: the lines of one logger are in the progress file in the order in which their
\* messages were delivered to the sender, also when Print, PrintRaw and PrintSection
\* are called from different goroutines at the same time
C13_FileOrderIsDeliveryOrder ==
    \A a, b \in Printed :
        \A i, j \in 1..Len(delivered) :
            (delivered[i] = MsgOf(a) /\ delivered[j] = MsgOf(b) /\ i < j
             /\ FilePos(a) > 0 /\ FilePos(b) > 0)
                => FilePos(a) < FilePos(b)

\* C14: a progress file held by a live logger has exactly the lines its owner wrote,
\* header first, and no second logger is open on it
C14_LiveFileOnlyByOwner ==
    \A l \in LoggerIds :
        lg[l].st = "open" =>
            /\ pfile.lock = l
            /\ pfile.content = lg[l].written
            /\ \A o \in LoggerIds \ {l} : lg[o].st # "open"


\* ------------------------------------------------------ source control: claims
\* a step of the goroutine in which createBranchIfNeeded runs: setupGitForExecution
\* of a Full run, or the branch step of plan mode
BranchStep ==
    /\ \/ bl.pc = "setup" /\ bl.planFile # "" /\ bl.mode = "full"
       \/ bl.pc = "pm_branch"
    /\ bl'.pc # bl.pc

\* the work tree createBranchIfNeeded refuses: on main or master with uncommitted
\* changes in files other than the plan
Refused(r) == r.branch \in {"main", "master"} /\ r.otherDirty

\* no progress logger has been created and no Runner has launched a subprocess
NothingStarted ==
    /\ \A l \in Loggers : logs[l] = "none"
    /\ runner = NoRunner
    /\ phasesRun = <<>>

\* C15 (amended): on main or master with uncommitted changes in other files,
\* createBranchIfNeeded fails and changes nothing: no branch, no checkout, nothing
\* staged or committed. Its error is the refusal "cannot create branch ...
\* uncommitted changes", unless the query for the branch or for the changes failed
\* itself. In a run on a given or selected plan file the refusal ends the run
\* before any progress logger is created and before any subprocess is launched.
C15_BranchRefusedNothingChanged ==
    /\ [][(BranchStep /\ Refused(repo)) =>
            /\ repo' = repo
            /\ bl'.err \in {CannotCreateBranch, "get current branch",
                            "check uncommitted files"}
            /\ bl'.pc \in {"inner_ret", "pm_defer"}]_vars
    /\ []((innerErr = CannotCreateBranch /\ bl.pmFrom = "") =>
            (NothingStarted /\ repo.ops = <<>>))

\* a Full run on a given plan file was refused on main with other uncommitted files
C15_Witness ==
    /\ innerErr = CannotCreateBranch
    /\ bl.pmFrom = ""
    /\ Refused(repo)
    /\ bl.planFile = PlanName

\* C15 as stated: whenever the refusal ends a run, no progress logger was created
\* and no subprocess launched before
C15_RefusalBeforeAnyWork ==
    innerErr = CannotCreateBranch => NothingStarted

\* the calls of createBranchIfNeeded made so far
BranchCalls == {e \in Range(gitLog) : e.fn = "createBranchIfNeeded"}

\* the source-control changes a call made
NewOps(e) == SubSeq(e.after.ops, Len(e.before.ops) + 1, Len(e.after.ops))

\* C16: createBranchIfNeeded changes nothing when the current branch is neither
\* main nor master; called on main or master, when it succeeds the current branch
\* is extractBranchName(plan), created if it was absent and checked out if it was
\* there, and the plan file is committed exactly if it had uncommitted changes
C16_BranchOfThePlan ==
    \A e \in BranchCalls :
        LET name == extractBranchName(e.planFile) IN
        /\ e.before.branch \notin {"main", "master"} => e.after = e.before
        /\ (e.before.branch \in {"main", "master"} /\ e.err = "nil") =>
              /\ e.after.branch = name
              /\ e.after.branches = e.before.branches \cup {name}
              /\ NewOps(e) =
                    <<IF name \in e.before.branches THEN "checkout" ELSE "create branch">>
                    \o (IF e.before.planDirty THEN <<"stage plan", "commit plan">>
                                               ELSE <<>>)
              /\ ~e.after.planDirty
              /\ e.after.otherDirty = e.before.otherDirty

\* on master, a dated plan with uncommitted changes got its new branch and was
\* committed there
C16_Witness ==
    \E e \in BranchCalls :
        /\ e.before.branch = "master" /\ e.before.planDirty
        /\ e.planFile = "2024-01-15-add-cache.md"
        /\ "add-cache" \notin e.before.branches
        /\ e.err = "nil"
        /\ e.after.branch = "add-cache"
        /\ NewOps(e) = <<"create branch", "stage plan", "commit plan">>

\* the positions of the goroutine at which a helper of main.go changes the
\* repository: the initial commit, the setup of a run (branch, .gitignore), the
\* branch step of plan mode, and the end of a run
GitSteps == {"ec_wait", "setup", "pm_start", "pm_branch", "ex_ran"}

\* C17: the plan file is moved to completed/ (and the move committed) only when the
\* Runner has returned without error, the mode is Full and the plan file is set:
\* never after a failed or cancelled Runner, in Review or CodexOnly mode, or without
\* a plan file; and between the start of a run and its end nothing else changes
\* the repository: every change is made at one of GitSteps, none while the Runner
\* runs and none after the move.
C17_PlanArchivedOnlyAfterSuccess ==
    /\ [][repo'.planAt # repo.planAt =>
            /\ bl.pc = "ex_ran" /\ bl.err = "nil" /\ runner.queue = <<>>
            /\ bl.mode = "full" /\ bl.planFile # ""
            /\ repo.planAt = "plans" /\ repo'.planAt = "completed"]_vars
    /\ [][repo'.ops # repo.ops => bl.pc \in GitSteps]_vars
    /\ [][(repo'.ops # repo.ops /\ bl.pc = "ex_ran") =>
            /\ repo'.planAt = "completed"
            /\ repo'.ops \in {Append(repo.ops, "move plan"),
                               repo.ops \o <<"move plan", "commit move">>}]_vars
    /\ [](repo.planAt = "completed" =>
            (bl.mode = "full" /\ bl.planFile # "" /\ bl.pc \notin GitSteps))

\* a Full run has ended with its plan moved to completed/ and the move committed
C17_Witness ==
    /\ bl.pc = "finished"
    /\ innerErr = "nil"
    /\ repo.planAt = "completed"
    /\ Len(repo.ops) >= 2
    /\ repo.ops[Len(repo.ops)] = "commit move"

\* how far runPlanModeTUI has come after the Plan phase: the plan file looked for
\* (1), before the prompt (2), the prompt (3), its answer taken (4), the branch step
\* (5), its output (6), before the Full run (7), the Full run (8), the return (9, 10)
PmStage(b) ==
    CASE b.pc = "pm_found" -> 1
      [] b.pc = "pm_cont" -> 2
      [] b.pc = "pm_wait" -> 3
      [] b.pc \in {"pm_warn", "pm_continuing"} -> 4
      [] b.pc = "pm_branch" -> 5
      [] b.pc \in {"pm_branch_out", "pm_branch_err_out"} -> 6
      [] b.pc = "pm_exec" -> 7
      [] b.pc = "pm_defer" -> 9
      [] b.pc \in {"inner_ret", "done_send", "finished"} -> 10
      [] b.execFrom = "pm" -> 8
      [] OTHER -> 0

\* the user chose the "Yes" option of "Continue with plan implementation?"
ChoseYes == askResult.err = "nil" /\ askResult.answer = "Yes, execute plan"

\* C18 (amended): in plan mode the steps after the Plan phase are taken in order and
\* each at most once, so there is at most one prompt, one branch step and one Full
\* run. The prompt is shown exactly if the Plan phase succeeded and a new plan file
\* was found. The branch step follows exactly if the prompt returned the "Yes"
\* option; on "No" and on a failed or cancelled prompt the function returns, as it
\* does when no plan file was found. No branch is created or checked out anywhere
\* but in the branch step. The Full run on the new plan starts exactly if the
\* branch step succeeded.
C18_FullRunAfterYes ==
    /\ [][bl.pmFrom # "" => PmStage(bl') >= PmStage(bl)]_vars
    /\ [][(PmStage(bl) = 0 /\ PmStage(bl') # 0 /\ bl.pmFrom # "") =>
            \/ bl.pc = "pm_ran" /\ bl.err = "nil" /\ bl'.pc = "pm_found"
            \/ bl'.pc \in {"pm_defer", "inner_ret"} /\ bl'.execFrom = ""]_vars
    /\ [][(bl.pc = "pm_cont" /\ bl'.pc # "pm_cont") =>
            IF bl.planFile # "" THEN bl'.pc = "pm_wait" ELSE bl'.pc = "pm_defer"]_vars
    /\ [][(bl.pc = "pm_wait" /\ bl'.pc # "pm_wait") =>
            IF ChoseYes THEN bl'.pc = "pm_continuing"
                        ELSE bl'.pc \in {"pm_defer", "pm_warn"}]_vars
    /\ [][(PmStage(bl) = 4 /\ PmStage(bl') # 4) =>
            IF bl.pc = "pm_continuing" THEN bl'.pc = "pm_branch"
                                       ELSE bl'.pc = "pm_defer"]_vars
    /\ [][(bl.pmFrom # "" /\ <<repo.branch, repo.branches>> # <<repo'.branch, repo'.branches>>)
            => bl.pc = "pm_branch"]_vars
    /\ [][(bl.pc = "pm_branch" /\ bl'.pc # "pm_branch") =>
            IF bl'.err = "nil" THEN bl'.pc \in {"pm_exec", "pm_branch_out"}
                               ELSE bl'.pc \in {"pm_defer", "pm_branch_err_out"}]_vars
    /\ [][(PmStage(bl) = 6 /\ PmStage(bl') # 6) =>
            IF bl.err = "nil" THEN bl'.pc = "pm_exec" ELSE bl'.pc = "pm_defer"]_vars
    /\ [][bl'.execFrom # bl.execFrom =>
            \/ bl.pc = "setup" /\ bl'.execFrom = "inner"
            \/ /\ bl.pc = "pm_exec" /\ bl'.execFrom = "pm" /\ bl'.pc = "ex_newlog"
               /\ bl'.mode = "full" /\ bl'.planFile = bl.planFile /\ bl.planFile # ""]_vars

\* the plan was created on main, the user chose Yes, the branch of the plan was
\* created with the plan committed on it, and the Full run on the new plan has
\* run its phases
C18_Witness ==
    /\ bl.pmFrom # ""
    /\ bl.execFrom = "pm"
    /\ bl.pc = "ex_ran" /\ bl.err = "nil"
    /\ bl.mode = "full" /\ bl.planFile = PlanName
    /\ repo.branch = extractBranchName(PlanName)
    /\ repo.ops = <<"create branch", "stage plan", "commit plan">>

\* C18 as stated: with a new plan file found and "Yes" chosen, the Full run starts:
\* the branch step is followed by the Full run
C18_YesStartsFullRun ==
    [][(bl.pc = "pm_branch" /\ bl'.pc # "pm_branch") =>
            bl'.pc \in {"pm_exec", "pm_branch_out"}]_vars

\* the i-th call was a call of ensureGitignore
IsGitignoreCall(i) == gitLog[i].fn = "ensureGitignore"

\* what the i-th call, a call of ensureGitignore, has to do for the claim: leave
\* a repository that ignores progress files as it is, append the pattern at most
\* once, and change nothing right after a successful call of ensureGitignore
GitignoreKept(i) ==
    LET e == gitLog[i] IN
    /\ e.before.ignored => (e.after = e.before /\ e.err = "nil")
    /\ e.after.patterns <= e.before.patterns + 1
    /\ (i > 1 /\ IsGitignoreCall(i - 1) /\ gitLog[i - 1].err = "nil") => e.after = e.before

AnsweredYes == askResult.err = "nil" /\ askResult.answer = "Yes"

\* C20: ensureRepoHasCommitsTUI creates the initial commit only in a repository
\* without commits and only when the user answered Yes; with commits there the
\* user is not asked; on No and on a failed or cancelled prompt it returns an error
\* and creates no commit.
C20_InitialCommitOnlyOnYes ==
    /\ [][(repo'.hasCommits # repo.hasCommits \/ repo'.ops = Append(repo.ops, "initial commit"))
            => /\ bl.pc = "ec_wait" /\ bl'.pc = "ec_created"
               /\ ~repo.hasCommits /\ AnsweredYes
               /\ repo' = CreateInitialCommit(repo)]_vars
    /\ [][(bl.pc = "ec_check" /\ bl'.pc # "ec_check" /\ repo.hasCommits)
            => bl'.pc \in {"dispatch", "inner_ret"}]_vars
    /\ [](bl.pc \in {"ec_out", "ec_ask", "ec_wait"} => ~repo.hasCommits)
    /\ [][(bl.pc = "ec_wait" /\ bl'.pc # "ec_wait" /\ ~AnsweredYes)
            => (bl'.pc = "inner_ret" /\ bl'.err # "nil" /\ repo' = repo)]_vars
    /\ [][(ask' # ask /\ ask'.opts = <<"Yes", "No">>) => bl.pc = "ec_ask"]_vars

\* in a repository without commits the user answered Yes and the initial commit
\* was created
C20_Witness ==
    /\ bl.pc = "ec_created"
    /\ ~opt.hasCommits
    /\ repo.hasCommits
    /\ repo.ops = <<"initial commit">>

\* ---------------------------------------------------------------------------
\* Claims about the key handling of tui.Model
\* ---------------------------------------------------------------------------

\* what Enter does to the model and the channels in the present state
OnEnter == Update(model, chans, KeyMsg("enter"))

\* Enter has submitted the option under the cursor: it is appended to the answer
\* channel of the question shown, the question is cleared and the state is the one
\* handleQuestion had saved
Submitted(r) ==
    /\ ~r.blocked
    /\ ~r.panic
    /\ model.questionCh # NilCh
    /\ model.questionCursor \in 0..(Len(model.questionOpts) - 1)
    /\ r.chans = ChSend(chans, model.questionCh,
                        [text |-> model.questionOpts[model.questionCursor + 1],
                         question |-> model.question])
    /\ r.m.state = model.prevState
    /\ r.m.question = 0
    /\ r.m.questionOpts = <<>>
    /\ r.m.questionCh = NilCh
    /\ r.cmd = {}

\* a question is shown and waits for its answer (after Ctrl-C the model has let go
\* of the channel and the quit command is on its way)
QuestionShown ==
    /\ loopPc = "running"
    /\ model.state = "Question"
    /\ model.questionCh # NilCh

\* C21: while a question is shown, the cursor is an index of its options, and Enter
\* sends the option under the cursor, once, on the answer channel of that question,
\* clears the question and restores the state handleQuestion saved when the
\* question was shown.
C21_EnterSubmitsOptionUnderCursor ==
    QuestionShown => Submitted(OnEnter)

\* Enter has submitted the second option of a question the run asked: the answer
\* is in the channel of the waiting call, and the UI is back in Executing
C21_Witness ==
    /\ askPc = "select"
    /\ Len(chans[ask.ch].buf) = 1
    /\ Head(chans[ask.ch].buf) = [text |-> ask.opts[2], question |-> ask.qid]
    /\ model.state = "Executing"
    /\ model.prevState = "Executing"
    /\ model.questionCh = NilCh
    /\ model.questionOpts = <<>>
    /\ loopPc = "running"

\* what a press of key k does to the model and the channels in the present state
OnKey(k) == Update(model, chans, KeyMsg(k))

\* Update result r has put the selection result on the result channel the business
\* logic registered with the model
Delivered(r, result) ==
    /\ model.planResultCh # NilCh
    /\ r.chans = ChSend(chans, model.planResultCh, result)

\* the plan list is shown: loaded, with plans or empty
PlanListShown ==
    /\ loopPc = "running"
    /\ model.state = "SelectPlan"
    /\ model.planReady

\* C22: while the plan list is shown, Enter on a list with plans returns the command
\* that selects the highlighted plan, and that selection delivers the path on the
\* result channel and moves the UI to Executing; n switches to CreatePlan; q and
\* Ctrl-C each return the quit command, whether the list is empty or not.
C22_SelectPlanKeys ==
    PlanListShown =>
        /\ ~model.emptyList =>
             /\ OnKey("enter").cmd = {[type |-> "PlanSelected", path |-> PlanName]}
             /\ LET sel == Update(model, chans, [type |-> "PlanSelected", path |-> PlanName])
                IN  /\ sel.m.state = "Executing"
                    /\ Delivered(sel, [path |-> PlanName, desc |-> "", err |-> "nil"])
        /\ OnKey("n").m.state = "CreatePlan"
        /\ \A k \in {"q", "ctrl+c"} : QuitMsg \in OnKey(k).cmd

\* the textarea of the CreatePlan state is shown
PlanCreateShown ==
    /\ loopPc = "running"
    /\ model.state = "CreatePlan"
    /\ model.planCreateReady

\* the messages of planCreateModel.updatePlanCreate and what Update makes of them
SubmitMsg == [type |-> "planCreateSubmit", desc |-> "desc"]
CancelMsg == [type |-> "planCreateCancel"]
CreatedMsg == [type |-> "PlanCreated", desc |-> "desc"]

\* C23: while the textarea is shown, Ctrl-D and Esc on a non-empty text submit it:
\* the text becomes the plan description, which is delivered on the result channel
\* with the UI moving to Executing; Esc on an empty text and Ctrl-C cancel, and the
\* cancellation quits the UI; Ctrl-D on an empty text changes nothing.
C23_CreatePlanKeys ==
    PlanCreateShown =>
        /\ model.planText =>
             /\ \A k \in {"ctrl+d", "esc"} : OnKey(k) = Res(model, chans, {SubmitMsg})
             /\ Update(model, chans, SubmitMsg) = Res(model, chans, {CreatedMsg})
             /\ LET made == Update(model, chans, CreatedMsg)
                IN  /\ made.m.state = "Executing"
                    /\ Delivered(made, [path |-> "", desc |-> "desc", err |-> "nil"])
        /\ ~model.planText =>
             /\ OnKey("esc") = Res(model, chans, {CancelMsg})
             /\ OnKey("ctrl+d") = Res(model, chans, {})
        /\ OnKey("ctrl+c") = Res(model, chans, {CancelMsg})
        /\ Update(model, chans, CancelMsg) = Res(model, chans, {QuitMsg})

\* the final frame is shown
DoneShown == loopPc = "running" /\ model.state = "Done"

\* C24 as stated: in the Done state every key press returns the quit command
C24_AnyKeyQuitsWhenDone ==
    DoneShown => \A k \in Keys : QuitMsg \in OnKey(k).cmd

\* C24: in the Done state q and Ctrl-C return the quit command and leave the model
\* as it is; every other key returns no command and the UI stays in Done.
C24_OnlyQuitKeysQuitWhenDone ==
    DoneShown =>
        \A k \in Keys :
            OnKey(k) = Res(model, chans, IF k \in {"q", "ctrl+c"} THEN {QuitMsg} ELSE {})

\* the run is over, the final frame is shown and nothing is pending, and then q was
\* pressed: the quit command is on its way
C24_Witness ==
    /\ DoneShown
    /\ mainPc = "run"
    /\ doneSends = 1
    /\ sendPc["bl"] = "idle"
    /\ cmdMsgs = {QuitMsg}

\* ---------------------------------------------------------------------------
\* Claims about the output view (ViewSpec)
\* ---------------------------------------------------------------------------

\* C25: after any sequence of appends the output buffer holds at most
\* maxOutputLines lines, and they are exactly the most recently appended lines in
\* the order they were appended: the append after the buffer is full drops the
\* oldest line and nothing else.
C25_BufferKeepsNewestLines ==
    /\ Len(view.output) <= maxOutputLines
    /\ view.output = LastN(view.appended, maxOutputLines)

\* the append that followed a full buffer: the first line appended is gone, every
\* later one is there
C25_Witness ==
    /\ Len(view.appended) = maxOutputLines + 1
    /\ view.output = Tail(view.appended)
    /\ view.appended[1] # view.appended[2]

\* C26: an upward scroll (up/k, page up, home) switches auto-scroll off; auto-scroll
\* comes back on only by down/j or page down that leave the viewport at the bottom
\* or by end, and each of those does switch it on; while auto-scroll is off, an
\* append leaves the offset of the viewport where it was.
C26_AutoScrollFollowsScrolling ==
    /\ [](\A k \in {"up", "k", "pgup", "home"} :
            ~updateViewportScroll(view, k).autoScroll)
    /\ [](\A k \in {"down", "j", "pgdown"} :
            LET w == updateViewportScroll(view, k)
            IN  w.autoScroll <=> (view.autoScroll \/ AtBottom(w)))
    /\ [](LET w == updateViewportScroll(view, "end")
          IN  w.autoScroll /\ AtBottom(w))
    /\ [][(~view.autoScroll /\ view'.autoScroll) =>
             /\ AtBottom(view')
             /\ \E k \in {"down", "j", "pgdown", "end"} :
                  view' = updateViewportScroll(view, k)]_vars
    /\ [](~view.autoScroll =>
            \A line \in OutputLines : appendOutput(view, line).yoff = view.yoff)

\* scrolled up in a buffer longer than the viewport, a line was appended and the
\* viewport stayed where it was, above the bottom
C26_Witness ==
    /\ ~view.autoScroll
    /\ Len(view.appended) = maxOutputLines
    /\ view.yoff = 0
    /\ ~AtBottom(view)

\* ---------------------------------------------------------------------------
\* Claims about the broadcast logger (BroadcastSpec)
\* ---------------------------------------------------------------------------

\* the phases of the SetPhase calls in a sequence of calls, in order
RECURSIVE PhasesSet(_)
PhasesSet(cs) ==
    IF cs = <<>> THEN <<>>
    ELSE (IF Head(cs).fn = "SetPhase" THEN <<Head(cs).phase>> ELSE <<>>)
           \o PhasesSet(Tail(cs))

\* the step is a SetPhase(p) call
SetPhaseStep(p) ==
    /\ Len(bcast'.calls) = Len(bcast.calls) + 1
    /\ bcast'.calls[Len(bcast'.calls)] = SetPhaseCall(p)

\* C27: a SetPhase call that takes the logger from Task to another phase, after a
\* task iteration section was printed, publishes the task_end event naming the last
\* task iteration seen via PrintSection and nothing else, resets that index to 0 and
\* forwards the phase to the inner logger; every SetPhase is forwarded, so the inner
\* logger sees the phases in the order they were set.
C27_TaskEndOnLeavingTask ==
    /\ [][\A p \in Phases \ {"task"} :
            (SetPhaseStep(p) /\ bcast.phase = "task" /\ bcast.currentTask > 0) =>
                /\ bcast'.events = Append(bcast.events, TaskEnd(bcast.currentTask))
                /\ bcast'.currentTask = 0
                /\ bcast'.phase = p
                /\ bcast'.inner = Append(bcast.inner, SetPhaseCall(p))]_vars
    /\ [](PhasesSet(bcast.inner) = PhasesSet(bcast.calls))

\* task iterations 1 and 2 were printed and the phase then set to Review: the
\* task_end event names iteration 2, the index is back at 0, the inner logger has
\* the sections and the phase
C27_Witness ==
    /\ bcast.calls = <<PrintSectionCall([type |-> "TaskIteration", n |-> 1]),
                       PrintSectionCall([type |-> "TaskIteration", n |-> 2]),
                       SetPhaseCall("review")>>
    /\ bcast.events[3] = TaskEnd(2)
    /\ bcast.currentTask = 0
    /\ bcast.inner = bcast.calls

\* ---------------------------------------------------------------------------
\* Claims about the mode helpers (ModeSpec)
\* ---------------------------------------------------------------------------

\* C28: determineMode follows --plan > --codex-only > --review > full: for every
\* combination of flags the result is Plan if a plan description is given, else
\* CodexOnly if --codex-only is set, else Review if --review is set, else Full.
C28_ModePrecedence ==
    calc.fn = "determineMode" =>
        /\ calc.o.PlanDescription => calc.out = "plan"
        /\ (~calc.o.PlanDescription /\ calc.o.CodexOnly) => calc.out = "codex-only"
        /\ (~calc.o.PlanDescription /\ ~calc.o.CodexOnly /\ calc.o.Review) =>
             calc.out = "review"
        /\ (~calc.o.PlanDescription /\ ~calc.o.CodexOnly /\ ~calc.o.Review) =>
             calc.out = "full"

\* determineMode was called with --codex-only and --review both set and no plan
\* description, and answered CodexOnly
C28_Witness ==
    /\ calc.fn = "determineMode"
    /\ ~calc.o.PlanDescription
    /\ calc.o.CodexOnly
    /\ calc.o.Review
    /\ calc.out = "codex-only"

\* the conditions the claim names: --serve, no plan file, no plan description, a
\* watch directory from the CLI or from the configuration
WatchOnlyCase ==
    /\ calc.o.Serve
    /\ calc.o.PlanFile = ""
    /\ ~calc.o.PlanDescription
    /\ (calc.o.Watch # <<>> \/ calc.configWatchDirs # <<>>)

\* the run did not end with an error before the TUI
RunsOn == calc.fn = "run" /\ calc.out \in {"reset only", "watch only", "tui"}

LastComponent(path, i, j) ==
    /\ i <= j
    /\ \A k \in i..j : path[k] # "/"
    /\ \A k \in (j + 1)..Len(path) : path[k] = "/"
    /\ i > 1 => path[i - 1] = "/"

\* the stem of a component: the component without an .md at its end
StemOf(comp) ==
    IF Len(comp) >= 3 /\ comp[Len(comp) - 2] = "." /\ comp[Len(comp) - 1] = "m"
         /\ comp[Len(comp)] = "d"
      THEN SubSeq(comp, 1, Len(comp) - 3)
      ELSE comp

\* name is stem without its leading run of n digits and dashes, or all of stem if
\* nothing else is left
StrippedTo(stem, name) ==
    \E n \in 0..Len(stem) :
        /\ \A k \in 1..n : stem[k] \in Digits \cup {"-"}
        /\ n < Len(stem) => stem[n + 1] \notin Digits \cup {"-"}
        /\ name = IF n = Len(stem) THEN stem ELSE SubSeq(stem, n + 1, Len(stem))

\* the branch names the git helpers take for their plan files, spelled out
Spelled(str) ==
    CASE str = "2024-01-15-add-cache.md" ->
           <<"2", "0", "2", "4", "-", "0", "1", "-", "1", "5", "-",
             "a", "d", "d", "-", "c", "a", "c", "h", "e", ".", "m", "d">>
      [] str = "add-cache" -> <<"a", "d", "d", "-", "c", "a", "c", "h", "e">>
      [] str = "2024.md" -> <<"2", "0", "2", "4", ".", "m", "d">>
      [] str = "2024" -> <<"2", "0", "2", "4">>
      [] str = "main.md" -> <<"m", "a", "i", "n", ".", "m", "d">>
      [] str = "main" -> <<"m", "a", "i", "n">>
      [] str = "plan.md" -> <<"p", "l", "a", "n", ".", "m", "d">>
      [] str = "plan" -> <<"p", "l", "a", "n">>

\* C30: extractBranchName depends on the plan path alone; its result is the last
\* component of the path without the .md suffix (the stem), without the leading run
\* of digits and dashes, and it is the stem itself when nothing else would be left;
\* it is not empty unless the stem is. The branch names of the plan files the git
\* helpers are called with are the ones it gives.
C30_BranchNameOfPath ==
    /\ calc.fn = "extractBranchName" =>
         LET path == calc.path
             plain == \E k \in 1..Len(path) : path[k] # "/"
         IN  /\ plain =>
                  \E i, j \in 1..Len(path) :
                      /\ LastComponent(path, i, j)
                      /\ StrippedTo(StemOf(SubSeq(path, i, j)), calc.out)
                      /\ StemOf(SubSeq(path, i, j)) # <<>> => calc.out # <<>>
             /\ (~plain /\ path # <<>>) => calc.out = <<"/">>
             /\ path = <<>> => calc.out = <<".">>
    /\ \A f \in PlanFiles :
         extractBranchNameOfPath(Spelled(f)) = Spelled(extractBranchName(f))

\* the path "1-m.md", a date prefix and a name, gave "m"
C30_Witness ==
    /\ calc.fn = "extractBranchName"
    /\ calc.path = <<"1", "-", "m", ".", "m", "d">>
    /\ calc.out = <<"m">>

\* ---------------------------------------------------------------------------
\* Claims about the names of the progress files (FilenameSpec)
\* ---------------------------------------------------------------------------

\* the name is "progress", then middle, then ".txt"
Named(out, middle) == out = ProgressWord \o middle \o TxtSuffix

\* C31: the name progressFilename gives depends on the plan file, the description
\* and the mode alone: progress-plan-<slug>.txt in plan mode with a description;
\* with a plan file progress-<stem>.txt, progress-<stem>-review.txt or
\* progress-<stem>-codex.txt by the mode, the stem being the last component of the
\* path without its .md; without a plan progress.txt, progress-review.txt,
\* progress-codex.txt or progress-plan.txt
C31_ProgressFilenameByPlanAndMode ==
    calc.fn = "tui.progressFilename" =>
        LET withDesc == calc.mode = "plan" /\ calc.desc # <<>>
            path == calc.planFile
        IN  /\ withDesc =>
                 Named(calc.out, Dash \o PlanWord \o Dash \o sanitizePlanName(calc.desc))
            /\ (~withDesc /\ path # <<>>) =>
                 \E i, j \in 1..Len(path) :
                     /\ LastComponent(path, i, j)
                     /\ LET stem == StemOf(SubSeq(path, i, j))
                        IN  /\ calc.mode = "full" => Named(calc.out, Dash \o stem)
                            /\ calc.mode = "review" =>
                                 Named(calc.out, Dash \o stem \o Dash \o ReviewWord)
                            /\ calc.mode = "codex-only" =>
                                 Named(calc.out, Dash \o stem \o Dash \o CodexWord)
            /\ (~withDesc /\ path = <<>>) =>
                 /\ calc.mode = "full" => Named(calc.out, <<>>)
                 /\ calc.mode = "review" => Named(calc.out, Dash \o ReviewWord)
                 /\ calc.mode = "codex-only" => Named(calc.out, Dash \o CodexWord)
                 /\ calc.mode = "plan" => Named(calc.out, Dash \o PlanWord)

\* the plan d/a.md in review mode was named progress-a-review.txt
C31_Witness ==
    /\ calc.fn = "tui.progressFilename"
    /\ calc.planFile = <<"d", "/", "a", ".", "m", "d">>
    /\ calc.mode = "review"
    /\ calc.desc = <<>>
    /\ calc.out = ProgressWord \o <<"-", "a", "-">> \o ReviewWord \o TxtSuffix

\* C32: the slug sanitizePlanName gives is not empty, is at most SlugLimit characters
\* long unless it is the default, consists of lower-case letters, digits and single
\* dashes, has no dash at either end, and is "unnamed" when the description has no
\* letter and no digit
C32_SlugIsWellFormed ==
    calc.fn = "tui.sanitizePlanName" =>
        LET slug == calc.out
            survivors == {i \in 1..Len(calc.desc) : calc.desc[i] \notin {" ", "-", "!"}}
        IN  /\ slug # <<>>
            /\ Len(slug) <= SlugLimit \/ slug = Unnamed
            /\ \A i \in 1..Len(slug) : slug[i] \in LowerLetters \cup Digits \cup {"-"}
            /\ \A i \in 1..(Len(slug) - 1) : ~(slug[i] = "-" /\ slug[i + 1] = "-")
            /\ slug[1] # "-"
            /\ slug[Len(slug)] # "-"
            /\ survivors = {} <=> slug = Unnamed

\* the description "Ab--1" was cut behind "ab-" and lost the dash at the end
C32_Witness ==
    /\ calc.fn = "tui.sanitizePlanName"
    /\ calc.desc = <<"A", "b", "-", "-", "1">>
    /\ calc.out = <<"a", "b">>

\* C35: the copies of sanitizePlanName and progressFilename in pkg/tui and in
\* pkg/progress give the same result on every input
C35_TuiCopyMirrorsProgress ==
    /\ calc.fn = "tui.sanitizePlanName" => calc.out = sanitizePlanNameOfProgress(calc.desc)
    /\ calc.fn = "progress.sanitizePlanName" => calc.out = sanitizePlanName(calc.desc)
    /\ calc.fn = "tui.progressFilename" =>
         calc.out = progressFilenameOfProgress(calc.planFile, calc.desc, calc.mode)
    /\ calc.fn = "progress.progressFilename" =>
         calc.out = progressFilename(calc.planFile, calc.desc, calc.mode)

\* pkg/progress named the plan-mode file of the description "A b" progress-plan-a-b.txt
C35_Witness ==
    /\ calc.fn = "progress.progressFilename"
    /\ calc.mode = "plan"
    /\ calc.desc = <<"A", " ", "b">>
    /\ calc.out = ProgressWord \o Dash \o PlanWord \o <<"-", "a", "-", "b">> \o TxtSuffix

\* what a run is named after: the slug of its description in plan mode, the stem of
\* its plan file otherwise, nothing without a plan; and its mode
NameKey(planFile, desc, mode) ==
    IF mode = "plan" /\ desc # <<>> THEN <<sanitizePlanName(desc), mode>>
    ELSE IF planFile # <<>> THEN <<TrimSuffix(Base(planFile), MdSuffix), mode>>
    ELSE <<<<>>, mode>>

\* C40: two runs that differ in the stem of the plan (or the slug of the
\* description) or in the mode are given different progress files
C40_DistinctRunsDistinctFiles ==
    calc.fn = "tui.progressFilename" =>
        \A other \in [planFile : PlanPaths, desc : FileDescriptions, mode : Modes] :
            NameKey(other.planFile, other.desc, other.mode)
                # NameKey(calc.planFile, calc.desc, calc.mode)
            => progressFilename(other.planFile, other.desc, other.mode) # calc.out

\* ---------------------------------------------------------------------------
\* Claims about PrintAligned (AlignedSpec)
\* ---------------------------------------------------------------------------

\* the non-empty lines of a text: the longest runs of characters without a newline,
\* by their first and last position
LineRuns(text) ==
    {r \in (1..Len(text)) \X (1..Len(text)) :
        /\ r[1] <= r[2]
        /\ \A k \in r[1]..r[2] : text[k] # NL
        /\ r[1] > 1 => text[r[1] - 1] = NL
        /\ r[2] < Len(text) => text[r[2] + 1] = NL}

\* lines are the non-empty lines of text in their order, each as it is or with the
\* indent of a list item before it
ShowsLinesOf(lines, text) ==
    /\ Len(lines) = Cardinality(LineRuns(text))
    /\ \A r \in LineRuns(text) :
         LET k == Cardinality({q \in LineRuns(text) : q[1] <= r[1]})
             line == SubSeq(text, r[1], r[2])
         IN  lines[k] \in {line, <<" ", " ">> \o line}

\* C33: a PrintAligned of an empty text or of newlines only writes nothing to the
\* progress file and sends no message; any other text has exactly its non-empty
\* lines written, in their order, one timestamped line each, and one message sent
\* with them
C33_PrintAlignedWritesNonEmptyLines ==
    calc.fn = "PrintAligned" =>
        LET written == SubSeq(pfile.content, calc.nLines + 1, Len(pfile.content))
            sent == SubSeq(delivered, calc.nMsgs + 1, Len(delivered))
        IN  IF \A i \in 1..Len(calc.text) : calc.text[i] = NL
              THEN written = <<>> /\ sent = <<>>
              ELSE /\ written # <<>>
                   /\ \A k \in 1..Len(written) : written[k].kind = "PrintAligned"
                   /\ ShowsLinesOf([k \in 1..Len(written) |-> written[k].text], calc.text)
                   /\ Len(sent) = 1
                   /\ sent[1].type = "Output"
                   /\ sent[1].lines = [k \in 1..Len(written) |-> written[k].text]

\* a text of two newlines was printed after a text of two lines around an empty one:
\* the file holds the header and the two lines, and one message was sent
C33_Witness ==
    /\ calc.fn = "PrintAligned"
    /\ calc.calls = 2
    /\ calc.text = <<NL, NL>>
    /\ Len(pfile.content) = 3
    /\ pfile.content[2].text = <<"a">>
    /\ pfile.content[3].text = <<"-">>
    /\ Len(delivered) = 1

\* ---------------------------------------------------------------------------
\* Claims about the plan selection and the questions of the whole run (Spec)
\* ---------------------------------------------------------------------------

\* the messages the event loop may hand to Update next: a key press, or the message
\* of a command that is outstanding
NextMsgs == {KeyMsg(k) : k \in Keys} \cup (cmdMsgs \ {QuitMsg})

\* C34: waitForPlanSelection leaves its wait without a result only when the context
\* is cancelled, and then with the error that wraps the context error; once it has
\* done so, no message makes Update block or panic on the result channel, and the
\* event loop is never blocked
C34_CancelledWaitNeverBlocksUI ==
    /\ [][(bl.pc = "wps_select" /\ bl'.pc # "wps_select" /\ ~CanRecv(chans, "result"))
            => /\ ctxDone[RootCtx]
               /\ bl'.pc = "inner_ret"
               /\ bl'.err = "wait for plan selection"
               /\ drainPc' = "waiting"]_vars
    /\ [](drainPc # "none" =>
            /\ loopPc # "blocked"
            /\ loopErr # "panic"
            /\ loopPc = "running" =>
                 \A msg \in NextMsgs : LET r == Update(model, chans, msg)
                                       IN  ~r.blocked /\ ~r.panic)

\* the wait ended by the cancellation, the UI delivered a selection afterwards, and
\* the drain goroutine took it
C34_Witness ==
    /\ drainPc = "done"
    /\ bl.err = "wait for plan selection"
    /\ model.planResultCh = NilCh
    /\ chans["result"].buf = <<>>

\* the run started with the plan list: no plan file, no description, no review
SelectionRun == determineInitialTUIState(opt, determineMode(opt)) = "SelectPlan"

\* C36: a selection or description the user submits reaches the waiting
\* waitForPlanSelection, also when it is submitted before the result channel is
\* registered: the UI is not in Executing while the goroutine waits in its select
\* with nothing to receive
C36_SubmittedSelectionIsReceived ==
    (SelectionRun /\ model.state = "Executing" /\ bl.pc = "wps_select"
       /\ ~ctxDone[RootCtx])
    => CanRecv(chans, "result")

\* C37: while the UI is in the Question state and has not been told to quit, a
\* question is pending: it has options and an answer channel; a second question
\* that arrives while one is shown, and an answer after it, do not leave the UI in
\* the Question state with nothing to answer
C37_QuestionStateHasQuestion ==
    (loopPc = "running" /\ model.state = "Question" /\ QuitMsg \notin cmdMsgs)
    => (model.questionCh # NilCh /\ Len(model.questionOpts) > 0)

\* C38: Update never blocks on a channel send: in every state, the answer of Enter
\* and the result or error for the plan-result channel are sent at once, whatever
\* key or command message comes next, also after an earlier question was cancelled
C38_UpdateNeverBlocks ==
    /\ loopPc # "blocked"
    /\ loopPc = "running" => \A msg \in NextMsgs : ~Update(model, chans, msg).blocked

\* C39: the .gitignore update of the tool never makes createBranchIfNeeded refuse:
\* in a direct Full run and in plan mode continued with "Yes", the refusal "cannot
\* create branch ... uncommitted changes" is given only on a work tree that had
\* uncommitted changes in files other than the plan from the start
C39_GitignoreNeverBlocksBranch ==
    bl.err = CannotCreateBranch => repo.otherDirty

====
